---------------------------- MODULE Spec2Model ----------------------------
(***************************************************************************)
(* A model of the DVD screensaver (src/src/main.rs): the argument          *)
(* dispatch of main, the single-instance guard of run_preview_mode, the    *)
(* bounce stepper update, the recolouring change_color and the input       *)
(* handler window_event.                                                   *)
(*                                                                         *)
(* Conventions.                                                            *)
(*  - A Rust String is a sequence of one-character strings.                *)
(*  - Lengths are integers in a unit in which every width, height and      *)
(*    window size is even, so that w / 2.0 is exact; f32 arithmetic is     *)
(*    modelled as exact arithmetic on these values (finite speeds, no      *)
(*    NaN, no rounding).                                                   *)
(*  - Time is counted in units of 0.05 s.                                  *)
(*  - Every image fits the viewport it is shown in (it may be as wide), as *)
(*    it does for the size factors the configuration dialog allows         *)
(*    (0.05 .. 0.5).                                                       *)
(***************************************************************************)
EXTENDS Integers, Sequences, FiniteSets, TLC

VARIABLES
    args,                 \* env::args() without the program name (args[1..])
    main_pc,              \* where main is: "start", "run_preview", "app", "done"
    mode,                 \* the branch main took
    exited,               \* the process has ended
    exit_code,            \* the code given to std::process::exit, if called
    PREVIEW_RUNNING,      \* static AtomicBool
    PREVIEW_PARENT_HWND,  \* static mut Option<isize>
    rp,                   \* per caller of run_preview_mode: [pc, hwnd]
    app_fn,               \* the model function given to nannou::app
    app_state,            \* "none", "launch", "running", "closed"
    app_time,             \* app.time, in time units
    window,               \* the window built by the model function, or NoWindow
    n_windows,            \* how many windows the process has created
    embed,                \* the settle-and-reparent thread: [pc, parent, failed]
    model,                \* the Model struct, or NoModel
    LAST_HUE,             \* the value inside the LAST_HUE mutex
    last_step,            \* history: what the last handler did
    cfg,                  \* the ConfigModel struct, or NoConfigModel
    pickers,              \* per file-picker task: [pc, result]
    config_ini,           \* the config file: None, or Some(text)
    saves,                \* history: how many times save_config was called
    images_on_disk,       \* the paths at which a readable image file exists
    stderr,               \* the lines written with eprintln!
    cc                    \* the activation of change_color: [pc, new_hue,
                          \* last_hue_guard, draws]

\* The state of the configuration session and of the config store
config_vars == <<cfg, pickers, config_ini, saves>>

vars == <<args, main_pc, mode, exited, exit_code, PREVIEW_RUNNING,
          PREVIEW_PARENT_HWND, rp, app_fn, app_state, app_time, window,
          n_windows, embed, model, LAST_HUE, last_step, cfg, pickers,
          config_ini, saves, images_on_disk, stderr, cc>>

\* The image files and the diagnostics
io_vars == <<images_on_disk, stderr>>

-----------------------------------------------------------------------------
(* Values standing for Rust's Option and for absent objects. *)

\* Option<T>: None is the empty sequence, Some(v) the sequence of v alone
None == <<>>

Some(v) == <<v>>

\* No window exists: a record of the shape of a window, that no builder makes
NoWindow ==
    [title |-> "NoWindow", w |-> 0, h |-> 0, fullscreen |-> FALSE,
     decorations |-> FALSE, always_on_top |-> FALSE, parent |-> None,
     style |-> "none"]

\* No Model has been built: a record of the shape of a Model, that no model
\* function makes
NoModel ==
    [image |-> [w |-> 0, h |-> 0, hue |-> None, source |-> "none"],
     original_image |-> [w |-> 0, h |-> 0, hue |-> None, source |-> "none"],
     dvd_rect |-> [x |-> 0, y |-> 0, w |-> 0, h |-> 0],
     dvd_vel |-> [x |-> 0, y |-> 0],
     m_pos |-> None,
     is_preview |-> FALSE,
     preview_parent |-> None]

NoMode == "NoMode"

Abs(n) == IF n < 0 THEN -n ELSE n

Min(a, b) == IF a <= b THEN a ELSE b

-----------------------------------------------------------------------------
(* Strings: the characters the argument lists are built from. *)

MaxFlagLen == 2

Alphabet == {"/", "-", "c", "C", "p", "P", "s", "S", "a", "A", "x", "7"}

\* char::to_lowercase on the alphabet
LowerChar(ch) ==
    CASE ch = "C" -> "c"
      [] ch = "P" -> "p"
      [] ch = "S" -> "s"
      [] ch = "A" -> "a"
      [] OTHER -> ch

\* str::to_lowercase
to_lowercase(s) == [i \in 1..Len(s) |-> LowerChar(s[i])]

\* str::starts_with
starts_with(s, p) == Len(s) >= Len(p) /\ SubSeq(s, 1, Len(p)) = p

\* The decimal digit d as a character
DigitChar(d) == <<"0", "1", "2", "3", "4", "5", "6", "7", "8", "9">>[d + 1]

Digits == {DigitChar(d) : d \in 0..9}

DigitValue(ch) == IF ch \in Digits THEN CHOOSE d \in 0..9 : DigitChar(d) = ch ELSE 0

RECURSIVE DecimalValue(_)
DecimalValue(s) ==
    IF Len(s) = 0 THEN 0
    ELSE 10 * DecimalValue(SubSeq(s, 1, Len(s) - 1)) + DigitValue(s[Len(s)])

\* str::parse::<isize>().ok(): an optional sign and at least one digit
ParseIsize(s) ==
    LET body == IF Len(s) > 0 /\ s[1] = "-" THEN SubSeq(s, 2, Len(s)) ELSE s
    IN  IF Len(body) > 0 /\ \A i \in 1..Len(body) : body[i] \in Digits
        THEN IF Len(s) > 0 /\ s[1] = "-" THEN Some(-DecimalValue(body))
             ELSE Some(DecimalValue(body))
        ELSE None

\* Strings over the alphabet of length at most n
StringsUpTo(n) == UNION {[1..k -> Alphabet] : k \in 0..n}

-----------------------------------------------------------------------------
(* main: the mode dispatch. *)

\* A mutant of parse_preview_hwnd: digits appended to the flag are not read.
parse_preview_hwnd_NextOnly(a) ==
    IF Len(a) > 1 THEN ParseIsize(a[2]) ELSE None

\* fn parse_preview_hwnd; a is args[1..], so args[2] is a[2] and args[1] is a[1]
parse_preview_hwnd(a) ==
    IF Len(a) > 1 THEN ParseIsize(a[2])
    ELSE IF Len(a) > 0
         THEN IF Len(a[1]) > 2 THEN ParseIsize(SubSeq(a[1], 3, Len(a[1])))
              ELSE None
         ELSE None

\* A mutant of MainBranch: the flag is compared without to_lowercase.
MainBranch_CaseSensitive(a) ==
    IF Len(a) = 0 THEN "Interactive"
    ELSE LET flag == a[1]
         IN  IF starts_with(flag, <<"/", "c">>) \/ starts_with(flag, <<"-", "c">>)
               THEN "Configure"
             ELSE IF starts_with(flag, <<"/", "p">>) \/ starts_with(flag, <<"-", "p">>)
               THEN "Preview"
             ELSE IF starts_with(flag, <<"/", "s">>) \/ starts_with(flag, <<"-", "s">>)
               THEN "ScreensaverExec"
             ELSE IF starts_with(flag, <<"/", "a">>) \/ starts_with(flag, <<"-", "a">>)
               THEN "PasswordStub"
             ELSE "Interactive"

\* The if-chain of main (lines 67-90): which branch runs for an argument list
MainBranch(a) ==
    IF Len(a) = 0 THEN "Interactive"
    ELSE LET flag == to_lowercase(a[1])
         IN  IF starts_with(flag, <<"/", "c">>) \/ starts_with(flag, <<"-", "c">>)
               THEN "Configure"
             ELSE IF starts_with(flag, <<"/", "p">>) \/ starts_with(flag, <<"-", "p">>)
               THEN "Preview"
             ELSE IF starts_with(flag, <<"/", "s">>) \/ starts_with(flag, <<"-", "s">>)
               THEN "ScreensaverExec"
             ELSE IF starts_with(flag, <<"/", "a">>) \/ starts_with(flag, <<"-", "a">>)
               THEN "PasswordStub"
             ELSE "Interactive"

-----------------------------------------------------------------------------
(* Geometry: nannou's Rect, by centre and size. *)

\* Rect::from_x_y_w_h
from_x_y_w_h(x, y, w, h) == [x |-> x, y |-> y, w |-> w, h |-> h]

left(r) == r.x - r.w \div 2

right(r) == r.x + r.w \div 2

bottom(r) == r.y - r.h \div 2

top(r) == r.y + r.h \div 2

\* app.window_rect(): the window's rectangle, centred on the origin
window_rect(wnd) == from_x_y_w_h(0, 0, wnd.w, wnd.h)

-----------------------------------------------------------------------------
(* Sizes of the model. *)

ScreenHalfW == 4

ScreenHalfH == 3

PreviewHalfW == 4

PreviewHalfH == 3

HostHalfW == 3

HostHalfH == 2

ImageHalfW == 1

ImageHalfH == 1

MaxSpeed == 2

MaxDt == 2

MaxTime == 3

MaxPointer == 2

ExtraCallers == 2

\* app.time > 0.1 (line 695): 0.1 s is two time units
JitterTime == 2

\* config.speed, an even number of length units per time unit
Speeds == {2 * k : k \in 1..MaxSpeed}

\* app.duration.since_prev_update
Dts == 0..MaxDt

\* Pointer positions a MouseMoved event can carry
Pointers == 1..MaxPointer

\* The host handles /p can name
Hwnds == {None, Some(7)}

MainCaller == 0

Callers == 0..ExtraCallers

PreviewTitle == "DVD Screensaver Preview"

MaxHandleLen == 2

\* The characters a host handle is written with: a digit, a sign, a letter
HandleChars == {"7", "-", "x"}

\* What can follow the flag letters, or stand as the second argument
HandleStrings == UNION {[1..k -> HandleChars] : k \in 0..MaxHandleLen}

\* The first two characters of a first argument that selects Preview
PreviewFlags == {<<sign, letter>> : sign \in {"/", "-"}, letter \in {"p", "P"}}

-----------------------------------------------------------------------------
(* change_color: the colour variation policy. *)

HueRange == 360

MinHueDiff == 60

\* A mutant of gen_range: the upper bound is drawn too (0..=360).
gen_range_Inclusive == 0..HueRange

\* rng.gen_range(0..360) (line 618): the values a draw can give
gen_range == 0..(HueRange - 1)

\* The draws the session specification follows: both sides of the threshold
HueSamples == {h \in gen_range : h \in {0, 59, 120, 300}}

\* A mutant of min_diff: the distance is not wrapped around the wheel.
min_diff_NoWrap(new_hue, last_hue) == Abs(new_hue - last_hue)

\* hue_diff and min_diff of change_color (lines 619-620)
min_diff(new_hue, last_hue) ==
    LET hue_diff == Abs(new_hue - last_hue)
    IN  Min(hue_diff, HueRange - hue_diff)

\* A mutant of Accepts: the difference is taken without abs and without the
\* way round the circle.
Accepts_Signed(new_hue, last_hue) == new_hue - last_hue >= MinHueDiff

\* The loop of change_color breaks on the draw new_hue (line 622)
Accepts(new_hue, last_hue) == min_diff(new_hue, last_hue) >= MinHueDiff

\* image.huerotate(new_hue).brighten(10).adjust_contrast(1.2) (line 630)
huerotate(image, new_hue) == [image EXCEPT !.hue = Some(new_hue)]

\* A thumbnail of the given size, not yet recoloured, of the bundled logo
BaseImage(w, h) == [w |-> w, h |-> h, hue |-> None, source |-> "dvd_logo"]

\* The images thumbnail can return (lines 651-654, 211-214): in the fullscreen
\* window at most half the window each way; in the embedded preview within
\* 100 x 75 of the 200 x 150 window; in the standalone preview up to the whole
\* 200 x 150 window, the size factor being at most 0.5
ScreenImages == {BaseImage(2 * ImageHalfW, 2 * ImageHalfH)}

EmbeddedImages == {BaseImage(2 * ImageHalfW, 2 * ImageHalfH)}

StandaloneImages ==
    {BaseImage(2 * ImageHalfW, 2 * ImageHalfH),
     BaseImage(2 * PreviewHalfW, 2 * ImageHalfH)}

-----------------------------------------------------------------------------
(* The config store (lines 506-564): the record, its text and the file.    *)
(* A speed or a size factor is counted in hundredths (50.0 is 5000, 0.16   *)
(* is 16); the file is None when it does not exist or cannot be read as    *)
(* text, and Some(text) otherwise; LF and CR stand for the line feed and   *)
(* the carriage return.                                                    *)

LF == "LF"

CR == "CR"

\* speed: 50.0 (lines 471, 524, 539), in hundredths
DefaultSpeed == 5000

\* size_factor: 0.16 (lines 473, 526, 541), in hundredths
DefaultSizeFactor == 16

\* The record of lines 538-543 and 470-475
DefaultConfig ==
    [speed |-> DefaultSpeed, image_index |-> 0,
     size_factor |-> DefaultSizeFactor, custom_image_path |-> <<>>]

\* Display of an unsigned integer
RECURSIVE DecimalString(_)
DecimalString(n) ==
    IF n < 10 THEN <<DigitChar(n)>>
    ELSE DecimalString(n \div 10) \o <<DigitChar(n % 10)>>

\* Display of an f32 of h hundredths: the shortest text that reads back as h
DisplayF32(h) ==
    LET a == Abs(h)
        frac == a % 100
        sign == IF h < 0 THEN <<"-">> ELSE <<>>
        tail == IF frac = 0 THEN <<>>
                ELSE IF frac % 10 = 0 THEN <<".", DigitChar(frac \div 10)>>
                ELSE <<".", DigitChar(frac \div 10), DigitChar(frac % 10)>>
    IN  sign \o DecimalString(a \div 100) \o tail

\* s is made of digits only
AllDigits(s) == \A i \in 1..Len(s) : s[i] \in Digits

\* str::parse::<usize>().ok(): an optional plus sign and at least one digit
ParseUsize(s) ==
    LET body == IF Len(s) > 0 /\ s[1] = "+" THEN SubSeq(s, 2, Len(s)) ELSE s
    IN  IF Len(body) > 0 /\ AllDigits(body) THEN Some(DecimalValue(body))
        ELSE None

\* str::parse::<f32>().ok(), in hundredths: an optional sign, digits, a point
\* and digits, with a digit on one side of the point at least.  Exponents,
\* "inf" and "NaN" are not written with the characters of the model, and no
\* text of the model has more than two digits after the point.
ParseF32(s) ==
    LET signed == Len(s) > 0 /\ s[1] \in {"-", "+"}
        body == IF signed THEN SubSeq(s, 2, Len(s)) ELSE s
        points == {i \in 1..Len(body) : body[i] = "."}
        dot == IF points = {} THEN Len(body) + 1
               ELSE CHOOSE i \in points : \A j \in points : i <= j
        int == SubSeq(body, 1, dot - 1)
        frac == SubSeq(body, dot + 1, Len(body))
        frac2 == SubSeq(frac \o <<"0", "0">>, 1, 2)
        value == 100 * DecimalValue(int) + DecimalValue(frac2)
    IN  IF /\ Len(int) + Len(frac) > 0
           /\ AllDigits(int)
           /\ AllDigits(frac)
        THEN Some(IF signed /\ s[1] = "-" THEN -value ELSE value)
        ELSE None

\* str::lines: the text split at each LF, a CR before the LF dropped with it;
\* what follows the last LF is a line if it is not empty
RECURSIVE lines(_)
lines(text) ==
    IF Len(text) = 0 THEN <<>>
    ELSE LET ends == {i \in 1..Len(text) : text[i] = LF}
         IN  IF ends = {} THEN <<text>>
             ELSE LET i == CHOOSE e \in ends : \A f \in ends : e <= f
                      raw == SubSeq(text, 1, i - 1)
                      line == IF Len(raw) > 0 /\ raw[Len(raw)] = CR
                              THEN SubSeq(raw, 1, Len(raw) - 1) ELSE raw
                  IN  <<line>> \o lines(SubSeq(text, i + 1, Len(text)))

\* Option::unwrap_or
unwrap_or(opt, default) == IF opt = None THEN default ELSE opt[1]

\* A mutant of load_config: one unparseable number discards the whole file.
load_config_AllOrNothing(file) ==
    IF file = None THEN DefaultConfig
    ELSE LET ls == lines(file[1])
             field(k) == IF Len(ls) >= k THEN Some(ls[k]) ELSE None
             speed == ParseF32(unwrap_or(field(1), DisplayF32(DefaultSpeed)))
             image_index == ParseUsize(unwrap_or(field(2), <<"0">>))
             size_factor == ParseF32(unwrap_or(field(3), DisplayF32(DefaultSizeFactor)))
         IN  IF speed = None \/ image_index = None \/ size_factor = None
             THEN DefaultConfig
             ELSE [speed |-> speed[1], image_index |-> image_index[1],
                   size_factor |-> size_factor[1],
                   custom_image_path |-> unwrap_or(field(4), <<>>)]

\* fn load_config (lines 516-544): lines.next() is the k-th line, if any
load_config(file) ==
    IF file = None THEN DefaultConfig
    ELSE LET ls == lines(file[1])
             field(k) == IF Len(ls) >= k THEN Some(ls[k]) ELSE None
         IN  [speed |-> unwrap_or(ParseF32(unwrap_or(field(1), <<"5", "0", ".", "0">>)),
                                  DefaultSpeed),
              image_index |-> unwrap_or(ParseUsize(unwrap_or(field(2), <<"0">>)), 0),
              size_factor |-> unwrap_or(ParseF32(unwrap_or(field(3),
                                                           <<"0", ".", "1", "6">>)),
                                        DefaultSizeFactor),
              custom_image_path |-> unwrap_or(field(4), <<>>)]

\* The text the four writeln! of lines 559-562 produce
config_text(config) ==
    DisplayF32(config.speed) \o <<LF>>
    \o DecimalString(config.image_index) \o <<LF>>
    \o DisplayF32(config.size_factor) \o <<LF>>
    \o config.custom_image_path \o <<LF>>

\* A mutant of save_config: the path is written before the size factor.
save_config_PathFirst(config, file, open_ok) ==
    IF open_ok
    THEN Some(DisplayF32(config.speed) \o <<LF>>
              \o DecimalString(config.image_index) \o <<LF>>
              \o config.custom_image_path \o <<LF>>
              \o DisplayF32(config.size_factor) \o <<LF>>)
    ELSE file

\* fn save_config (lines 546-564): the file after it; when the file cannot be
\* opened for writing nothing is written and nothing is reported
save_config(config, file, open_ok) ==
    IF open_ok THEN Some(config_text(config)) ELSE file

-----------------------------------------------------------------------------
(* The configuration dialog: its state and what a frame can be given. *)

MaxPickers == 2

\* The file-picker tasks the session can spawn, in the order of spawning
PickerIds == 1..MaxPickers

ConfigTitle == "DVD Screensaver Configuration"

\* No ConfigModel has been built: a record of the shape of a ConfigModel
NoConfigModel ==
    [config |-> [speed |-> 0, image_index |-> 0, size_factor |-> 0,
                 custom_image_path |-> <<>>],
     custom_image_path |-> <<>>,
     file_dialog_receiver |-> None,
     is_file_dialog_open |-> FALSE,
     should_exit |-> FALSE]

\* Values the speed slider (10.0..=200.0) and the size slider (0.05..=0.5) give
SliderSpeeds == {20000}

SliderSizes == {5}

\* Paths: typed into the field, chosen in the picker, given by dirs::*_dir
TypedPaths == { <<>>, <<"a">> }

PickedPaths == { <<"b">> }

QuickPaths == { <<"d">> }

\* What one frame of the dialog is given: no input, or one widget used, with
\* the number or the path the widget gives (a quick-select directory that
\* dirs does not know is None)
UiInput(kind, number, path) == [kind |-> kind, number |-> number, path |-> path]

UiInputs ==
    {UiInput(k, 0, None) :
        k \in {"NoInput", "Browse", "Save", "Cancel", "Reset", "CloseDialog"}}
    \cup {UiInput("Speed", v, None) : v \in SliderSpeeds}
    \cup {UiInput("Icon", i, None) : i \in 0..2}
    \cup {UiInput("Size", v, None) : v \in SliderSizes}
    \cup {UiInput("EditPath", 0, Some(t)) : t \in TypedPaths}
    \cup {UiInput("Quick", 0, Some(q)) : q \in QuickPaths}
    \cup {UiInput("Quick", 0, None)}

\* The config files a configuration session can find on the disk
ConfigFiles ==
    { None,
      Some(config_text([speed |-> 12050, image_index |-> 2, size_factor |-> 30,
                        custom_image_path |-> <<"c">>])),
      Some(<<"x", LF, "1", LF>>) }

-----------------------------------------------------------------------------
(* History: what the last handler did, for stating the claims. *)

\* kind: the handler; dt and pos: its inputs; bounces: the edges whose branch
\* ran; commits: the hues it wrote to LAST_HUE
Step(kind, dt, pos, bounces, commits) ==
    [kind |-> kind, dt |-> dt, pos |-> pos, bounces |-> bounces,
     commits |-> commits]

EventKinds == {"MouseMoved", "MousePressed", "KeyPressed", "MouseWheel", "Other"}

\* The WindowEvent values window_event can be given
Events ==
    {[kind |-> "MouseMoved", pos |-> Some(p)] : p \in Pointers}
    \cup {[kind |-> k, pos |-> None] : k \in EventKinds \ {"MouseMoved"}}

-----------------------------------------------------------------------------
(* The initial state: the process has just started. *)

\* Argument lists the session specification starts from, one or two per branch
SessionArgs ==
    { <<>>,
      << <<"/", "s">> >>,
      << <<"/", "c">> >>,
      << <<"/", "a">> >>,
      << <<"/", "P">> >>,
      << <<"-", "p">>, <<"7">> >> }

\* Argument lists of the dispatch specification: every first argument of up to
\* MaxFlagLen characters, alone or followed by a second argument
DispatchArgs ==
    { <<>> }
    \cup { <<f>> : f \in StringsUpTo(MaxFlagLen) }
    \cup { <<f, g>> : f \in StringsUpTo(MaxFlagLen), g \in { <<"7">>, <<"x">> } }

InitFull(argLists, pc0, files, disks) ==
    /\ args \in argLists
    /\ main_pc = pc0
    /\ mode = NoMode
    /\ exited = FALSE
    /\ exit_code = None
    /\ PREVIEW_RUNNING = FALSE
    /\ PREVIEW_PARENT_HWND = None
    /\ rp = [c \in Callers |-> [pc |-> "idle", hwnd |-> None]]
    /\ app_fn = "none"
    /\ app_state = "none"
    /\ app_time = 0
    /\ window = NoWindow
    /\ n_windows = 0
    /\ embed = [pc |-> "none", parent |-> None, failed |-> {}]
    /\ model = NoModel
    /\ LAST_HUE = 0
    /\ last_step = Step("none", 0, None, <<>>, <<>>)
    /\ cfg = NoConfigModel
    /\ pickers = [id \in PickerIds |-> [pc |-> "none", result |-> None]]
    /\ config_ini \in files
    /\ saves = 0
    /\ images_on_disk \in disks
    /\ stderr = <<>>
    /\ cc = [pc |-> "idle", new_hue |-> None, last_hue_guard |-> FALSE,
             draws |-> 0]

\* The process starts with no config file and no image file on the disk
InitWith(argLists, pc0) == InitFull(argLists, pc0, {None}, {{}})

Init == InitWith(SessionArgs, "start")

-----------------------------------------------------------------------------
(* main (lines 64-91). *)

\* main up to the call it dispatches to
Main ==
    /\ main_pc = "start"
    /\ ~exited
    /\ mode' = MainBranch(args)
    /\ last_step' = Step("main", 0, None, <<>>, <<>>)
    /\ CASE mode' = "Configure" ->
              /\ main_pc' = "app"
              /\ app_fn' = "config_model"
              /\ app_state' = "launch"
              /\ UNCHANGED <<rp, exited, exit_code>>
         [] mode' = "Preview" ->
              /\ main_pc' = "run_preview"
              /\ rp' = [rp EXCEPT ![MainCaller] =
                           [pc |-> "called", hwnd |-> parse_preview_hwnd(args)]]
              /\ UNCHANGED <<app_fn, app_state, exited, exit_code>>
         [] mode' = "PasswordStub" ->
              /\ main_pc' = "done"
              /\ exited' = TRUE
              /\ exit_code' = Some(0)
              /\ UNCHANGED <<rp, app_fn, app_state>>
         [] OTHER ->
              /\ main_pc' = "app"
              /\ app_fn' = "model"
              /\ app_state' = "launch"
              /\ UNCHANGED <<rp, exited, exit_code>>
    /\ UNCHANGED config_vars
    /\ UNCHANGED io_vars
    /\ UNCHANGED cc
    /\ UNCHANGED <<args, PREVIEW_RUNNING, PREVIEW_PARENT_HWND,
                   app_time, window, n_windows, embed, model, LAST_HUE>>

\* run() has returned to main, which returns (lines 73-74, 85, 89-91)
MainReturn ==
    /\ main_pc = "app"
    /\ app_state = "closed"
    /\ ~exited
    /\ main_pc' = "done"
    /\ exited' = TRUE
    /\ last_step' = Step("return", 0, None, <<>>, <<>>)
    /\ UNCHANGED config_vars
    /\ UNCHANGED io_vars
    /\ UNCHANGED cc
    /\ UNCHANGED <<args, mode, exit_code, PREVIEW_RUNNING,
                   PREVIEW_PARENT_HWND, rp, app_fn, app_state, app_time, window,
                   n_windows, embed, model, LAST_HUE>>

-----------------------------------------------------------------------------
(* run_preview_mode (lines 108-124), one action per step of a caller. *)

\* A mutant of RunPreviewSwap: the flag is set but its old value is not tested.
RunPreviewSwap_Untested(c) ==
    /\ rp[c].pc = "called"
    /\ ~exited
    /\ PREVIEW_RUNNING' = TRUE
    /\ rp' = [rp EXCEPT ![c].pc = "passed"]
    /\ last_step' = Step("swap", 0, None, <<>>, <<>>)
    /\ UNCHANGED config_vars
    /\ UNCHANGED io_vars
    /\ UNCHANGED cc
    /\ UNCHANGED <<args, main_pc, mode, exited, exit_code,
                   PREVIEW_PARENT_HWND, app_fn, app_state, app_time, window,
                   n_windows, embed, model, LAST_HUE>>

\* PREVIEW_RUNNING.swap(true, SeqCst), one atomic step, and the exit it guards
RunPreviewSwap(c) ==
    /\ rp[c].pc = "called"
    /\ ~exited
    /\ PREVIEW_RUNNING' = TRUE
    /\ IF PREVIEW_RUNNING
       THEN /\ exited' = TRUE
            /\ exit_code' = Some(0)
            /\ rp' = [rp EXCEPT ![c].pc = "exit0"]
       ELSE /\ rp' = [rp EXCEPT ![c].pc = "passed"]
            /\ UNCHANGED <<exited, exit_code>>
    /\ last_step' = Step("swap", 0, None, <<>>, <<>>)
    /\ UNCHANGED config_vars
    /\ UNCHANGED io_vars
    /\ UNCHANGED cc
    /\ UNCHANGED <<args, main_pc, mode, PREVIEW_PARENT_HWND, app_fn,
                   app_state, app_time, window, n_windows, embed, model,
                   LAST_HUE>>

\* PREVIEW_PARENT_HWND = hwnd, and nannou::app(..) with the model function chosen
RunPreviewLaunch(c) ==
    /\ rp[c].pc = "passed"
    /\ ~exited
    /\ PREVIEW_PARENT_HWND' = rp[c].hwnd
    /\ app_fn' = IF rp[c].hwnd # None THEN "preview_model_embedded"
                 ELSE "preview_model_standalone"
    /\ app_state' = "launch"
    /\ rp' = [rp EXCEPT ![c].pc = "app"]
    /\ last_step' = Step("launch", 0, None, <<>>, <<>>)
    /\ UNCHANGED config_vars
    /\ UNCHANGED io_vars
    /\ UNCHANGED cc
    /\ UNCHANGED <<args, main_pc, mode, exited, exit_code,
                   PREVIEW_RUNNING, app_time, window, n_windows, embed, model,
                   LAST_HUE>>

\* run() has returned: PREVIEW_RUNNING.store(false); main, if the caller, returns
RunPreviewReturn(c) ==
    /\ rp[c].pc = "app"
    /\ app_state = "closed"
    /\ ~exited
    /\ PREVIEW_RUNNING' = FALSE
    /\ rp' = [rp EXCEPT ![c].pc = "done"]
    /\ app_state' = "none"
    /\ app_fn' = "none"
    /\ IF c = MainCaller
       THEN main_pc' = "done" /\ exited' = TRUE
       ELSE UNCHANGED <<main_pc, exited>>
    /\ last_step' = Step("return", 0, None, <<>>, <<>>)
    /\ UNCHANGED config_vars
    /\ UNCHANGED io_vars
    /\ UNCHANGED cc
    /\ UNCHANGED <<args, mode, exit_code, PREVIEW_PARENT_HWND,
                   app_time, window, n_windows, embed, model, LAST_HUE>>

-----------------------------------------------------------------------------
(* The icon (lines 566-610). *)

\* fn get_image_data with load_image_safe: the bundled logos for 0, 1 and any
\* index above 2; for 2 the file at custom_path, an error when the path is
\* empty or no readable image file is there
get_image_data(image_index, custom_path, disk) ==
    CASE image_index = 0 -> [ok |-> TRUE, source |-> "dvd_logo"]
      [] image_index = 1 -> [ok |-> TRUE, source |-> "dvd_logo2"]
      [] image_index = 2 ->
            IF custom_path = <<>> THEN [ok |-> FALSE, source |-> "custom"]
            ELSE [ok |-> custom_path \in disk, source |-> "custom"]
      [] OTHER -> [ok |-> TRUE, source |-> "dvd_logo"]

\* The match of lines 209-225 and 648-668: the thumbnail of the image that
\* was loaded, or of the bundled logo when loading failed
thumbnail(loaded, thumb) ==
    [thumb EXCEPT !.source = IF loaded.ok THEN loaded.source ELSE "dvd_logo"]

\* The line eprintln! writes at line 657
IconLoadingFailed == "Icon loading failed"

-----------------------------------------------------------------------------
(* The model functions nannou calls once when the app starts. *)

\* A window as the builders of lines 130-139, 184-195 and 634-641 describe it
NewWindow(title, w, h, fullscreen, decorations, always_on_top) ==
    [title |-> title, w |-> w, h |-> h, fullscreen |-> fullscreen,
     decorations |-> decorations, always_on_top |-> always_on_top,
     parent |-> None, style |-> "top_level"]

\* A mutant of create_preview_model: the Model is not marked as a preview.
create_preview_model_NotPreview(is_preview, parent_hwnd, speed, original_image, new_hue) ==
    LET config == load_config(config_ini)
        loaded == get_image_data(config.image_index, config.custom_image_path,
                                 images_on_disk)
        original == thumbnail(loaded, original_image)
        image == huerotate(original, new_hue)
    IN  [image |-> image,
         original_image |-> original,
         dvd_rect |-> from_x_y_w_h(0, 0, image.w, image.h),
         dvd_vel |-> [x |-> speed \div 2, y |-> speed \div 2],
         m_pos |-> None,
         is_preview |-> FALSE,
         preview_parent |-> parent_hwnd]

\* fn create_preview_model, given the speed of the config in the units of the
\* model, the size thumbnail gave the image (original_image) and the hue
\* change_color committed; the icon is the one the config file names
create_preview_model(is_preview, parent_hwnd, speed, original_image, new_hue) ==
    LET config == load_config(config_ini)
        loaded == get_image_data(config.image_index, config.custom_image_path,
                                 images_on_disk)
        original == thumbnail(loaded, original_image)
        image == huerotate(original, new_hue)
    IN  [image |-> image,
         original_image |-> original,
         dvd_rect |-> from_x_y_w_h(0, 0, image.w, image.h),
         dvd_vel |-> [x |-> speed \div 2, y |-> speed \div 2],
         m_pos |-> None,
         is_preview |-> is_preview,
         preview_parent |-> parent_hwnd]

\* fn model (lines 633-688): the fullscreen window and the interactive Model,
\* given the speed of the config in the units of the model, the size thumbnail
\* gave the image (original_image) and the hue change_color committed
AppModel(speed, original_image, new_hue) ==
    /\ app_state = "launch"
    /\ app_fn = "model"
    /\ ~exited
    /\ Accepts(new_hue, LAST_HUE)
    /\ window' = NewWindow("", 2 * ScreenHalfW, 2 * ScreenHalfH, TRUE, TRUE, FALSE)
    /\ n_windows' = n_windows + 1
    /\ LAST_HUE' = new_hue
    /\ LET config == load_config(config_ini)
           loaded == get_image_data(config.image_index, config.custom_image_path,
                                    images_on_disk)
           original == thumbnail(loaded, original_image)
           image == huerotate(original, new_hue)
       IN  /\ stderr' = IF loaded.ok THEN stderr
                        ELSE Append(stderr, IconLoadingFailed)
           /\ model' = [image |-> image,
                        original_image |-> original,
                        dvd_rect |-> from_x_y_w_h(0, 0, image.w, image.h),
                        dvd_vel |-> [x |-> speed, y |-> speed],
                        m_pos |-> None,
                        is_preview |-> FALSE,
                        preview_parent |-> None]
    /\ app_state' = "running"
    /\ app_time' = 0
    /\ last_step' = Step("model", 0, None, <<>>, <<new_hue>>)
    /\ UNCHANGED config_vars
    /\ UNCHANGED images_on_disk
    /\ UNCHANGED cc
    /\ UNCHANGED <<args, main_pc, mode, exited, exit_code,
                   PREVIEW_RUNNING, PREVIEW_PARENT_HWND, rp, app_fn, embed>>

\* fn preview_model_standalone (lines 183-198); also preview_model_embedded in
\* a build that is not for Windows (lines 178-181), which calls it
preview_model_standalone(speed, original_image, new_hue) ==
    /\ app_state = "launch"
    /\ \/ app_fn = "preview_model_standalone"
       \/ app_fn = "preview_model_embedded"
    /\ ~exited
    /\ Accepts(new_hue, LAST_HUE)
    /\ window' = NewWindow(PreviewTitle, 2 * PreviewHalfW, 2 * PreviewHalfH,
                           FALSE, TRUE, TRUE)
    /\ n_windows' = n_windows + 1
    /\ LAST_HUE' = new_hue
    /\ model' = create_preview_model(TRUE, None, speed, original_image, new_hue)
    /\ app_state' = "running"
    /\ app_time' = 0
    /\ last_step' = Step("model", 0, None, <<>>, <<new_hue>>)
    /\ UNCHANGED config_vars
    /\ UNCHANGED io_vars
    /\ UNCHANGED cc
    /\ UNCHANGED <<args, main_pc, mode, exited, exit_code,
                   PREVIEW_RUNNING, PREVIEW_PARENT_HWND, rp, app_fn, embed>>

\* fn preview_model_embedded in a build for Windows (lines 126-176)
preview_model_embedded(speed, original_image, new_hue) ==
    /\ app_state = "launch"
    /\ app_fn = "preview_model_embedded"
    /\ ~exited
    /\ Accepts(new_hue, LAST_HUE)
    /\ LET parent_hwnd == PREVIEW_PARENT_HWND
       IN  /\ window' = NewWindow(PreviewTitle, 2 * PreviewHalfW, 2 * PreviewHalfH,
                                  FALSE, FALSE, FALSE)
           /\ embed' = IF parent_hwnd # None
                       THEN [pc |-> "sleeping", parent |-> parent_hwnd,
                             failed |-> {}]
                       ELSE embed
           /\ model' = create_preview_model(TRUE, parent_hwnd, speed, original_image,
                                                new_hue)
    /\ n_windows' = n_windows + 1
    /\ LAST_HUE' = new_hue
    /\ app_state' = "running"
    /\ app_time' = 0
    /\ last_step' = Step("model", 0, None, <<>>, <<new_hue>>)
    /\ UNCHANGED config_vars
    /\ UNCHANGED io_vars
    /\ UNCHANGED cc
    /\ UNCHANGED <<args, main_pc, mode, exited, exit_code,
                   PREVIEW_RUNNING, PREVIEW_PARENT_HWND, rp, app_fn>>

\* The calls of the thread that were made and failed, given what each call
\* returns: nothing is called after a failed lookup or a failed GetClientRect
FailedCalls(child_found, rect_ok, parent_ok, style_ok, move_ok) ==
    IF ~child_found THEN {"FindWindowW"}
    ELSE IF ~rect_ok THEN {"GetClientRect"}
    ELSE {c \in {"SetParent", "SetWindowLongPtrW", "MoveWindow"} :
             \/ c = "SetParent" /\ ~parent_ok
             \/ c = "SetWindowLongPtrW" /\ ~style_ok
             \/ c = "MoveWindow" /\ ~move_ok}

\* A mutant of EmbedThread: the thread also moves the box to the middle of the
\* host's rectangle.
EmbedThread_MovesBox(found, rect_ok, parent_ok, style_ok, move_ok) ==
    /\ embed.pc = "sleeping"
    /\ ~exited
    /\ LET child_found == found /\ window # NoWindow /\ window.title = PreviewTitle
       IN  IF child_found /\ rect_ok
           THEN /\ window' = [window EXCEPT
                      !.parent = IF parent_ok THEN embed.parent ELSE @,
                      !.style = IF style_ok THEN "child_visible" ELSE @,
                      !.w = IF move_ok THEN 2 * HostHalfW ELSE @,
                      !.h = IF move_ok THEN 2 * HostHalfH ELSE @]
                /\ model' = [model EXCEPT !.dvd_rect.x = 0, !.dvd_rect.y = 0]
           ELSE UNCHANGED <<window, model>>
    /\ embed' = [embed EXCEPT
                    !.pc = "done",
                    !.failed = FailedCalls(found /\ window # NoWindow
                                                 /\ window.title = PreviewTitle,
                                           rect_ok, parent_ok, style_ok, move_ok)]
    /\ last_step' = Step("embed", 0, None, <<>>, <<>>)
    /\ UNCHANGED config_vars
    /\ UNCHANGED io_vars
    /\ UNCHANGED cc
    /\ UNCHANGED <<args, main_pc, mode, exited, exit_code,
                   PREVIEW_RUNNING, PREVIEW_PARENT_HWND, rp, app_fn, app_state,
                   app_time, n_windows, LAST_HUE>>

\* The thread spawned at line 142: the sleep, then the lookup and the four
\* calls, whose results are the inputs (found, rect_ok, parent_ok, style_ok,
\* move_ok); the results of SetParent, SetWindowLongPtrW and MoveWindow are not
\* tested by the code
EmbedThread(found, rect_ok, parent_ok, style_ok, move_ok) ==
    /\ embed.pc = "sleeping"
    /\ ~exited
    /\ LET child_found == found /\ window # NoWindow /\ window.title = PreviewTitle
       IN  IF child_found /\ rect_ok
           THEN window' = [window EXCEPT
                    !.parent = IF parent_ok THEN embed.parent ELSE @,
                    !.style = IF style_ok THEN "child_visible" ELSE @,
                    !.w = IF move_ok THEN 2 * HostHalfW ELSE @,
                    !.h = IF move_ok THEN 2 * HostHalfH ELSE @]
           ELSE UNCHANGED window
    /\ embed' = [embed EXCEPT
                    !.pc = "done",
                    !.failed = FailedCalls(found /\ window # NoWindow
                                                 /\ window.title = PreviewTitle,
                                           rect_ok, parent_ok, style_ok, move_ok)]
    /\ last_step' = Step("embed", 0, None, <<>>, <<>>)
    /\ UNCHANGED config_vars
    /\ UNCHANGED io_vars
    /\ UNCHANGED cc
    /\ UNCHANGED <<args, main_pc, mode, exited, exit_code,
                   PREVIEW_RUNNING, PREVIEW_PARENT_HWND, rp, app_fn, app_state,
                   app_time, n_windows, model, LAST_HUE>>

\* The window is closed from outside: nannou ends the loop and run() returns
CloseWindow ==
    /\ app_state = "running"
    /\ ~exited
    /\ app_state' = "closed"
    /\ window' = NoWindow
    /\ last_step' = Step("close", 0, None, <<>>, <<>>)
    /\ UNCHANGED config_vars
    /\ UNCHANGED io_vars
    /\ UNCHANGED cc
    /\ UNCHANGED <<args, main_pc, mode, exited, exit_code,
                   PREVIEW_RUNNING, PREVIEW_PARENT_HWND, rp, app_fn, app_time,
                   n_windows, embed, model, LAST_HUE>>

-----------------------------------------------------------------------------
(* update (lines 713-772): the bounce stepper.  A tick's working state is   *)
(* [rect, vel, color_changed, bounces]; bounces lists the edges whose       *)
(* branch ran, in the order of the code.                                    *)

\* Lines 718-723: the tentative translation
Translate(m, dt) ==
    [rect |-> from_x_y_w_h(m.dvd_rect.x + m.dvd_vel.x * dt,
                           m.dvd_rect.y + m.dvd_vel.y * dt,
                           m.dvd_rect.w, m.dvd_rect.h),
     vel |-> m.dvd_vel,
     color_changed |-> FALSE,
     bounces |-> <<>>]

\* A mutant of HitLeft: the velocity is turned but the centre is not clamped.
HitLeft_NoClamp(s, win) ==
    IF left(s.rect) <= left(win)
    THEN [rect |-> s.rect,
          vel |-> [s.vel EXCEPT !.x = Abs(s.vel.x)],
          color_changed |-> TRUE,
          bounces |-> Append(s.bounces, "left")]
    ELSE s

\* Lines 725-734
HitLeft(s, win) ==
    IF left(s.rect) <= left(win)
    THEN [rect |-> from_x_y_w_h(left(win) + s.rect.w \div 2, s.rect.y,
                                s.rect.w, s.rect.h),
          vel |-> [s.vel EXCEPT !.x = Abs(s.vel.x)],
          color_changed |-> TRUE,
          bounces |-> Append(s.bounces, "left")]
    ELSE s

\* A mutant of HitRight: the bounce loses speed.
HitRight_Damped(s, win) ==
    IF right(s.rect) >= right(win)
    THEN [rect |-> from_x_y_w_h(right(win) - s.rect.w \div 2, s.rect.y,
                                s.rect.w, s.rect.h),
          vel |-> [s.vel EXCEPT !.x = -(Abs(s.vel.x) - 1)],
          color_changed |-> TRUE,
          bounces |-> Append(s.bounces, "right")]
    ELSE s

\* Lines 736-745
HitRight(s, win) ==
    IF right(s.rect) >= right(win)
    THEN [rect |-> from_x_y_w_h(right(win) - s.rect.w \div 2, s.rect.y,
                                s.rect.w, s.rect.h),
          vel |-> [s.vel EXCEPT !.x = -Abs(s.vel.x)],
          color_changed |-> TRUE,
          bounces |-> Append(s.bounces, "right")]
    ELSE s

\* A mutant of HitBottom: the vertical velocity is negated, not forced upwards.
HitBottom_Negated(s, win) ==
    IF bottom(s.rect) <= bottom(win)
    THEN [rect |-> from_x_y_w_h(s.rect.x, bottom(win) + s.rect.h \div 2,
                                s.rect.w, s.rect.h),
          vel |-> [s.vel EXCEPT !.y = -s.vel.y],
          color_changed |-> TRUE,
          bounces |-> Append(s.bounces, "bottom")]
    ELSE s

\* Lines 747-756
HitBottom(s, win) ==
    IF bottom(s.rect) <= bottom(win)
    THEN [rect |-> from_x_y_w_h(s.rect.x, bottom(win) + s.rect.h \div 2,
                                s.rect.w, s.rect.h),
          vel |-> [s.vel EXCEPT !.y = Abs(s.vel.y)],
          color_changed |-> TRUE,
          bounces |-> Append(s.bounces, "bottom")]
    ELSE s

\* A mutant of HitTop: the check is chained to the others with an else.
HitTop_ElseIf(s, win) ==
    IF ~s.color_changed /\ top(s.rect) >= top(win)
    THEN [rect |-> from_x_y_w_h(s.rect.x, top(win) - s.rect.h \div 2,
                                s.rect.w, s.rect.h),
          vel |-> [s.vel EXCEPT !.y = -Abs(s.vel.y)],
          color_changed |-> TRUE,
          bounces |-> Append(s.bounces, "top")]
    ELSE s

\* Lines 758-767
HitTop(s, win) ==
    IF top(s.rect) >= top(win)
    THEN [rect |-> from_x_y_w_h(s.rect.x, top(win) - s.rect.h \div 2,
                                s.rect.w, s.rect.h),
          vel |-> [s.vel EXCEPT !.y = -Abs(s.vel.y)],
          color_changed |-> TRUE,
          bounces |-> Append(s.bounces, "top")]
    ELSE s

\* Lines 718-767: the translation and the four edge checks, in order
Advance(m, win, dt) ==
    HitTop(HitBottom(HitRight(HitLeft(Translate(m, dt), win), win), win), win)

\* A mutant of Update: the image is recoloured in every tick.
Update_EveryFrame(dt, new_hue) ==
    /\ app_state = "running"
    /\ app_fn \in {"model", "preview_model_embedded", "preview_model_standalone"}
    /\ ~exited
    /\ LET s == Advance(model, window_rect(window), dt)
       IN  /\ Accepts(new_hue, LAST_HUE)
           /\ LAST_HUE' = new_hue
           /\ model' = [model EXCEPT
                  !.dvd_rect = s.rect,
                  !.dvd_vel = s.vel,
                  !.image = huerotate(model.original_image, new_hue)]
           /\ last_step' = Step("update", dt, None, s.bounces, <<new_hue>>)
    /\ app_time' = Min(app_time + dt, MaxTime)
    /\ UNCHANGED config_vars
    /\ UNCHANGED io_vars
    /\ UNCHANGED cc
    /\ UNCHANGED <<args, main_pc, mode, exited, exit_code,
                   PREVIEW_RUNNING, PREVIEW_PARENT_HWND, rp, app_fn, app_state,
                   window, n_windows, embed>>

\* fn update, with the time since the previous update and, when a recolour
\* happens, the hue change_color commits; nannou has advanced app.time by dt
Update(dt, new_hue) ==
    /\ app_state = "running"
    /\ app_fn \in {"model", "preview_model_embedded", "preview_model_standalone"}
    /\ ~exited
    /\ LET s == Advance(model, window_rect(window), dt)
       IN  /\ IF s.color_changed
              THEN /\ Accepts(new_hue, LAST_HUE)
                   /\ LAST_HUE' = new_hue
                   /\ model' = [model EXCEPT
                          !.dvd_rect = s.rect,
                          !.dvd_vel = s.vel,
                          !.image = huerotate(model.original_image, new_hue)]
              ELSE /\ new_hue = LAST_HUE
                   /\ UNCHANGED LAST_HUE
                   /\ model' = [model EXCEPT !.dvd_rect = s.rect, !.dvd_vel = s.vel]
           /\ last_step' = Step("update", dt, None, s.bounces,
                                 IF s.color_changed
                                 THEN <<new_hue>> ELSE <<>>)
    /\ app_time' = Min(app_time + dt, MaxTime)
    /\ UNCHANGED config_vars
    /\ UNCHANGED io_vars
    /\ UNCHANGED cc
    /\ UNCHANGED <<args, main_pc, mode, exited, exit_code,
                   PREVIEW_RUNNING, PREVIEW_PARENT_HWND, rp, app_fn, app_state,
                   window, n_windows, embed>>

-----------------------------------------------------------------------------
(* window_event (lines 690-711): the idle ender. *)

\* A mutant of Listening: the start-up window is not waited for.
Listening_NoWindow(time) == time >= 0

\* app.time > 0.1 (line 695)
Listening(time) == time > JitterTime

\* A mutant of MouseMoved: the baseline follows the pointer.
MouseMoved_Follow(m, pos) ==
    [model |-> [m EXCEPT !.m_pos = Some(pos)], quit |-> m.m_pos # Some(pos)]

\* The MouseMoved arm (lines 697-704): the Model after it, and whether it quits
MouseMoved(m, pos) ==
    LET m1 == IF m.m_pos = None THEN [m EXCEPT !.m_pos = Some(pos)] ELSE m
    IN  [model |-> m1, quit |-> m1.m_pos # Some(pos)]

\* fn window_event; app.quit() ends the loop
WindowEvent(event) ==
    /\ app_state = "running"
    /\ app_fn \in {"model", "preview_model_embedded", "preview_model_standalone"}
    /\ ~exited
    /\ IF model.is_preview
       THEN UNCHANGED <<model, app_state>>
       ELSE IF Listening(app_time)
            THEN CASE event.kind = "MouseMoved" ->
                        /\ model' = MouseMoved(model, event.pos[1]).model
                        /\ app_state' = IF MouseMoved(model, event.pos[1]).quit
                                        THEN "closed" ELSE app_state
                   [] event.kind \in {"MousePressed", "KeyPressed", "MouseWheel"} ->
                        /\ app_state' = "closed"
                        /\ UNCHANGED model
                   [] OTHER -> UNCHANGED <<model, app_state>>
            ELSE UNCHANGED <<model, app_state>>
    /\ last_step' = Step(event.kind, 0, event.pos, <<>>, <<>>)
    /\ UNCHANGED config_vars
    /\ UNCHANGED io_vars
    /\ UNCHANGED cc
    /\ UNCHANGED <<args, main_pc, mode, exited, exit_code,
                   PREVIEW_RUNNING, PREVIEW_PARENT_HWND, rp, app_fn, app_time,
                   window, n_windows, embed, LAST_HUE>>

-----------------------------------------------------------------------------
(* The configuration dialog (lines 247-504). *)

\* The window of config_model: 500 x 400 (line 257), in units of 50
ConfigHalfW == 5

ConfigHalfH == 4

\* fn config_model (lines 254-283)
config_model ==
    /\ app_state = "launch"
    /\ app_fn = "config_model"
    /\ ~exited
    /\ window' = NewWindow(ConfigTitle, 2 * ConfigHalfW, 2 * ConfigHalfH,
                           FALSE, TRUE, FALSE)
    /\ n_windows' = n_windows + 1
    /\ LET config == load_config(config_ini)
       IN  cfg' = [config |-> config,
                   custom_image_path |-> config.custom_image_path,
                   file_dialog_receiver |-> None,
                   is_file_dialog_open |-> FALSE,
                   should_exit |-> FALSE]
    /\ app_state' = "running"
    /\ app_time' = 0
    /\ last_step' = Step("config_model", 0, None, <<>>, <<>>)
    /\ UNCHANGED <<pickers, config_ini, saves>>
    /\ UNCHANGED io_vars
    /\ UNCHANGED cc
    /\ UNCHANGED <<args, main_pc, mode, exited, exit_code,
                   PREVIEW_RUNNING, PREVIEW_PARENT_HWND, rp, app_fn, embed,
                   model, LAST_HUE>>

\* A mutant of PollReceiver: a report of no selection clears the path.
PollReceiver_ClearOnNone(m, ps) ==
    IF m.file_dialog_receiver # None /\ ps[m.file_dialog_receiver[1]].pc = "sent"
    THEN LET result == ps[m.file_dialog_receiver[1]].result
             path == IF result # None THEN result[1] ELSE <<>>
         IN  [m EXCEPT !.is_file_dialog_open = FALSE,
                       !.custom_image_path = path,
                       !.config.custom_image_path = path,
                       !.file_dialog_receiver = None]
    ELSE m

\* Lines 293-302: the poll of the receiver; try_recv is Ok when the task of
\* the receiver has sent its result
PollReceiver(m, ps) ==
    IF m.file_dialog_receiver # None /\ ps[m.file_dialog_receiver[1]].pc = "sent"
    THEN LET result == ps[m.file_dialog_receiver[1]].result
             m1 == [m EXCEPT !.is_file_dialog_open = FALSE]
             m2 == IF result # None
                   THEN [m1 EXCEPT !.custom_image_path = result[1],
                                   !.config.custom_image_path = result[1]]
                   ELSE m1
         IN  [m2 EXCEPT !.file_dialog_receiver = None]
    ELSE m

\* A mutant of BrowseEnabled: the button is enabled while a picker is open.
BrowseEnabled_Always(m) == TRUE

\* Line 361: add_enabled makes the Browse button clickable only while no file
\* dialog is open
BrowseEnabled(m) == ~m.is_file_dialog_open

\* A mutant of ShowDialog: Save does not ask the session to end.
ShowDialog_SaveStays(m, ui, id) ==
    LET m1 == IF ui.kind = "Speed" THEN [m EXCEPT !.config.speed = ui.number]
              ELSE m
        m2 == IF ui.kind = "Icon"
              THEN [m1 EXCEPT !.config.image_index = ui.number] ELSE m1
        shown == m2.config.image_index = 2
        m3 == IF shown /\ ui.kind = "EditPath"
              THEN [m2 EXCEPT !.custom_image_path = ui.path[1]] ELSE m2
        clicked == shown /\ ui.kind = "Browse" /\ BrowseEnabled(m3)
        m4 == IF clicked
              THEN [m3 EXCEPT !.file_dialog_receiver = Some(id),
                              !.is_file_dialog_open = TRUE]
              ELSE m3
        m5 == IF shown
              THEN [m4 EXCEPT !.config.custom_image_path = m4.custom_image_path]
              ELSE m4
        m6 == IF shown /\ ui.kind = "Quick" /\ ui.path # None
              THEN [m5 EXCEPT !.custom_image_path = ui.path[1]] ELSE m5
        m7 == IF ui.kind = "Size"
              THEN [m6 EXCEPT !.config.size_factor = ui.number] ELSE m6
        m8 == IF ui.kind = "Cancel"
              THEN [m7 EXCEPT !.should_exit = TRUE] ELSE m7
        m9 == IF ui.kind = "Reset"
              THEN [m8 EXCEPT !.config = DefaultConfig, !.custom_image_path = <<>>]
              ELSE m8
        m10 == IF ui.kind = "CloseDialog"
               THEN [m9 EXCEPT !.should_exit = TRUE] ELSE m9
    IN  [model |-> m10, spawn |-> clicked, save |-> ui.kind = "Save",
         saved |-> m7.config]

\* Lines 328-486: the widgets of one frame in the order of the code, given the
\* input ui of the frame and the id a spawned picker task gets; the result is
\* the ConfigModel after the frame, whether a picker task was spawned,
\* whether save_config was called and with which record
ShowDialog(m, ui, id) ==
    LET m1 == IF ui.kind = "Speed" THEN [m EXCEPT !.config.speed = ui.number]
              ELSE m
        m2 == IF ui.kind = "Icon"
              THEN [m1 EXCEPT !.config.image_index = ui.number] ELSE m1
        shown == m2.config.image_index = 2
        m3 == IF shown /\ ui.kind = "EditPath"
              THEN [m2 EXCEPT !.custom_image_path = ui.path[1]] ELSE m2
        clicked == shown /\ ui.kind = "Browse" /\ BrowseEnabled(m3)
        m4 == IF clicked
              THEN [m3 EXCEPT !.file_dialog_receiver = Some(id),
                              !.is_file_dialog_open = TRUE]
              ELSE m3
        m5 == IF shown
              THEN [m4 EXCEPT !.config.custom_image_path = m4.custom_image_path]
              ELSE m4
        m6 == IF shown /\ ui.kind = "Quick" /\ ui.path # None
              THEN [m5 EXCEPT !.custom_image_path = ui.path[1]] ELSE m5
        m7 == IF ui.kind = "Size"
              THEN [m6 EXCEPT !.config.size_factor = ui.number] ELSE m6
        m8 == IF ui.kind \in {"Save", "Cancel"}
              THEN [m7 EXCEPT !.should_exit = TRUE] ELSE m7
        m9 == IF ui.kind = "Reset"
              THEN [m8 EXCEPT !.config = DefaultConfig, !.custom_image_path = <<>>]
              ELSE m8
        m10 == IF ui.kind = "CloseDialog"
               THEN [m9 EXCEPT !.should_exit = TRUE] ELSE m9
    IN  [model |-> m10, spawn |-> clicked, save |-> ui.kind = "Save",
         saved |-> m7.config]

\* The id of the next picker task: one more than the tasks spawned so far
NewPickerId(ps) == Cardinality({id \in PickerIds : ps[id].pc # "none"}) + 1

\* fn config_update: one tick of the dialog, given the input of the frame and
\* whether save_config can open the file; a path widget is used only when it
\* is shown (the icon is the custom one)
config_update(ui, open_ok) ==
    /\ app_state = "running"
    /\ app_fn = "config_model"
    /\ ~exited
    /\ IF cfg.should_exit
       THEN /\ ui.kind = "NoInput"
            /\ open_ok
            /\ exited' = TRUE
            /\ exit_code' = Some(0)
            /\ last_step' = Step("config_exit", 0, None, <<>>, <<>>)
            /\ UNCHANGED <<cfg, pickers, config_ini, saves>>
       ELSE LET polled == PollReceiver(cfg, pickers)
                received == polled.file_dialog_receiver # cfg.file_dialog_receiver
                ps1 == IF received
                       THEN [pickers EXCEPT ![cfg.file_dialog_receiver[1]].pc =
                                               "received"]
                       ELSE pickers
                id == NewPickerId(ps1)
                d == ShowDialog(polled, ui, id)
            IN  /\ ui.kind \in {"EditPath", "Browse", "Quick"} =>
                      polled.config.image_index = 2
                /\ ui.kind # "Save" => open_ok
                /\ d.spawn => id \in PickerIds
                /\ cfg' = d.model
                /\ pickers' = IF d.spawn
                              THEN [ps1 EXCEPT ![id] = [pc |-> "picking",
                                                        result |-> None]]
                              ELSE ps1
                /\ config_ini' = IF d.save
                                 THEN save_config(d.saved, config_ini, open_ok)
                                 ELSE config_ini
                /\ saves' = IF d.save THEN saves + 1 ELSE saves
                /\ last_step' = Step(ui.kind, 0, None, <<>>, <<>>)
                /\ UNCHANGED <<exited, exit_code>>
    /\ UNCHANGED io_vars
    /\ UNCHANGED cc
    /\ UNCHANGED <<args, main_pc, mode, PREVIEW_RUNNING, PREVIEW_PARENT_HWND,
                   rp, app_fn, app_state, app_time, window, n_windows, embed,
                   model, LAST_HUE>>

\* The winit events raw_window_event can be given
RawEvents == {"CloseRequested", "RawOther"}

\* fn raw_window_event (lines 494-504)
raw_window_event(event) ==
    /\ app_state = "running"
    /\ app_fn = "config_model"
    /\ ~exited
    /\ cfg' = IF event = "CloseRequested" THEN [cfg EXCEPT !.should_exit = TRUE]
              ELSE cfg
    /\ last_step' = Step(event, 0, None, <<>>, <<>>)
    /\ UNCHANGED <<pickers, config_ini, saves>>
    /\ UNCHANGED io_vars
    /\ UNCHANGED cc
    /\ UNCHANGED <<args, main_pc, mode, exited, exit_code,
                   PREVIEW_RUNNING, PREVIEW_PARENT_HWND, rp, app_fn, app_state,
                   app_time, window, n_windows, embed, model, LAST_HUE>>

\* The task spawned at line 368: pick_file returns a path or nothing (cancel
\* or failure), and the result is sent
PickerThread(id, result) ==
    /\ pickers[id].pc = "picking"
    /\ ~exited
    /\ pickers' = [pickers EXCEPT ![id] = [pc |-> "sent", result |-> result]]
    /\ last_step' = Step("pick_file", 0, None, <<>>, <<>>)
    /\ UNCHANGED <<cfg, config_ini, saves>>
    /\ UNCHANGED io_vars
    /\ UNCHANGED cc
    /\ UNCHANGED <<args, main_pc, mode, exited, exit_code,
                   PREVIEW_RUNNING, PREVIEW_PARENT_HWND, rp, app_fn, app_state,
                   app_time, window, n_windows, embed, model, LAST_HUE>>

\* What pick_file can report
PickerResults == {None} \cup {Some(path) : path \in PickedPaths}

-----------------------------------------------------------------------------
(* The session specification: one process, from main to its end. *)

Next ==
    \/ Main
    \/ MainReturn
    \/ RunPreviewSwap(MainCaller)
    \/ RunPreviewLaunch(MainCaller)
    \/ RunPreviewReturn(MainCaller)
    \/ \E speed \in Speeds, image \in ScreenImages, new_hue \in HueSamples :
          AppModel(speed, image, new_hue)
    \/ \E speed \in Speeds, image \in StandaloneImages, new_hue \in HueSamples :
          preview_model_standalone(speed, image, new_hue)
    \/ \E speed \in Speeds, image \in EmbeddedImages, new_hue \in HueSamples :
          preview_model_embedded(speed, image, new_hue)
    \/ \E found, rect_ok, parent_ok, style_ok, move_ok \in BOOLEAN :
          EmbedThread(found, rect_ok, parent_ok, style_ok, move_ok)
    \/ CloseWindow
    \/ \E dt \in Dts, new_hue \in HueSamples : Update(dt, new_hue)
    \/ \E event \in Events : WindowEvent(event)

Spec == Init /\ [][Next]_vars

-----------------------------------------------------------------------------
(* The dispatch specification: main alone, over every short argument list. *)

InitDispatch == InitWith(DispatchArgs, "start")

NextDispatch == Main

SpecDispatch == InitDispatch /\ [][NextDispatch]_vars

-----------------------------------------------------------------------------
(* The colour specification: change_color called again and again, each     *)
(* call drawing from the whole of gen_range.                               *)

\* fn change_color (lines 612-631) when its loop ends on the draw new_hue
change_color(new_hue) ==
    /\ Accepts(new_hue, LAST_HUE)
    /\ LAST_HUE' = new_hue
    /\ last_step' = Step("change_color", 0, None, <<>>, <<new_hue>>)
    /\ UNCHANGED config_vars
    /\ UNCHANGED io_vars
    /\ UNCHANGED cc
    /\ UNCHANGED <<args, main_pc, mode, exited, exit_code,
                   PREVIEW_RUNNING, PREVIEW_PARENT_HWND, rp, app_fn, app_state,
                   app_time, window, n_windows, embed, model>>

InitColor == InitWith({<<>>}, "change_color")

NextColor == \E new_hue \in gen_range : change_color(new_hue)

SpecColor == InitColor /\ [][NextColor]_vars

-----------------------------------------------------------------------------
(* The redraw specification: change_color step by step, called again and   *)
(* again by one thread.  cc.pc is where the call is: "idle" outside it,     *)
(* "loop" at the head of the loop, "break" after the break, "commit" after  *)
(* the write of the hue, "drop" after the guard was dropped.               *)

\* How many draws of one call are counted
MaxDraws == 2

\* The draws of gen_range the redraw specification takes: every 30 degrees,
\* and the hues one below a multiple of 60
RedrawSamples == {h \in gen_range : h % 30 = 0 \/ h % 60 = 59}

\* The steps of the redraw specification leave everything but the hue, the
\* activation and the history unchanged
RedrawFrame ==
    /\ UNCHANGED config_vars
    /\ UNCHANGED io_vars
    /\ UNCHANGED <<args, main_pc, mode, exited, exit_code,
                   PREVIEW_RUNNING, PREVIEW_PARENT_HWND, rp, app_fn, app_state,
                   app_time, window, n_windows, embed, model>>

\* Lines 612-616: the call locks LAST_HUE and declares new_hue
change_color_lock ==
    /\ main_pc = "redraw"
    /\ cc.pc = "idle"
    /\ ~cc.last_hue_guard
    /\ cc' = [pc |-> "loop", new_hue |-> None, last_hue_guard |-> TRUE,
              draws |-> 0]
    /\ last_step' = Step("lock", 0, None, <<>>, <<>>)
    /\ UNCHANGED LAST_HUE
    /\ RedrawFrame

\* Lines 617-625: one turn of the loop, gen_range giving drawn
change_color_draw(drawn) ==
    /\ cc.pc = "loop"
    /\ cc' = [cc EXCEPT !.new_hue = Some(drawn),
                        !.draws = Min(@ + 1, MaxDraws),
                        !.pc = IF Accepts(drawn, LAST_HUE) THEN "break"
                               ELSE "loop"]
    /\ last_step' = Step("draw", 0, None, <<>>, <<>>)
    /\ UNCHANGED LAST_HUE
    /\ RedrawFrame

\* Line 627: *last_hue = new_hue
change_color_commit ==
    /\ cc.pc = "break"
    /\ LAST_HUE' = cc.new_hue[1]
    /\ cc' = [cc EXCEPT !.pc = "commit"]
    /\ last_step' = Step("commit", 0, None, <<>>, <<cc.new_hue[1]>>)
    /\ RedrawFrame

\* Line 628: drop(last_hue)
change_color_drop ==
    /\ cc.pc = "commit"
    /\ cc' = [cc EXCEPT !.pc = "drop", !.last_hue_guard = FALSE]
    /\ last_step' = Step("drop", 0, None, <<>>, <<>>)
    /\ UNCHANGED LAST_HUE
    /\ RedrawFrame

\* Line 630: the recoloured image is returned
change_color_return ==
    /\ cc.pc = "drop"
    /\ cc' = [cc EXCEPT !.pc = "idle"]
    /\ last_step' = Step("recoloured", 0, None, <<>>, <<>>)
    /\ UNCHANGED LAST_HUE
    /\ RedrawFrame

\* A draw the test of line 622 accepts
AcceptedDraw ==
    \E drawn \in RedrawSamples :
        Accepts(drawn, LAST_HUE) /\ change_color_draw(drawn)

InitRedraw == InitWith({<<>>}, "redraw")

NextRedraw ==
    \/ change_color_lock
    \/ \E drawn \in RedrawSamples : change_color_draw(drawn)
    \/ change_color_commit
    \/ change_color_drop
    \/ change_color_return

\* thread_rng draws uniformly: a draw that is possible in every turn of the
\* loop is made in the end; the straight-line steps after the loop are taken
SpecRedraw ==
    /\ InitRedraw
    /\ [][NextRedraw]_vars
    /\ WF_vars(AcceptedDraw)
    /\ WF_vars(change_color_commit)
    /\ WF_vars(change_color_drop)
    /\ WF_vars(change_color_return)

-----------------------------------------------------------------------------
(* The guard specification: run_preview_mode entered by several callers of *)
(* one process (main itself enters it once), each running its steps; the   *)
(* sessions are built and closed but not ticked.                           *)

\* A caller enters run_preview_mode(hwnd) (line 108)
RunPreviewCall(c, hwnd) ==
    /\ rp[c].pc = "idle"
    /\ ~exited
    /\ rp' = [rp EXCEPT ![c] = [pc |-> "called", hwnd |-> hwnd]]
    /\ last_step' = Step("call", 0, None, <<>>, <<>>)
    /\ UNCHANGED config_vars
    /\ UNCHANGED io_vars
    /\ UNCHANGED cc
    /\ UNCHANGED <<args, main_pc, mode, exited, exit_code,
                   PREVIEW_RUNNING, PREVIEW_PARENT_HWND, app_fn, app_state,
                   app_time, window, n_windows, embed, model, LAST_HUE>>

InitGuard == InitWith({<< <<"/", "p">> >>}, "callers")

NextGuard ==
    \/ \E c \in Callers \ {MainCaller}, hwnd \in Hwnds : RunPreviewCall(c, hwnd)
    \/ \E c \in Callers \ {MainCaller} : RunPreviewSwap(c)
    \/ \E c \in Callers \ {MainCaller} : RunPreviewLaunch(c)
    \/ \E c \in Callers \ {MainCaller} : RunPreviewReturn(c)
    \/ \E speed \in Speeds, image \in StandaloneImages, new_hue \in HueSamples :
          preview_model_standalone(speed, image, new_hue)
    \/ \E speed \in Speeds, image \in EmbeddedImages, new_hue \in HueSamples :
          preview_model_embedded(speed, image, new_hue)
    \/ \E found, rect_ok, parent_ok, style_ok, move_ok \in BOOLEAN :
          EmbedThread(found, rect_ok, parent_ok, style_ok, move_ok)
    \/ CloseWindow

SpecGuard == InitGuard /\ [][NextGuard]_vars

-----------------------------------------------------------------------------
(* The preview specification: main given every short argument list whose   *)
(* first argument selects Preview, up to the window of the session.         *)

\* /p, /pNNN, /p NNN and /pNNN NNN, with well-formed and malformed NNN
PreviewArgs ==
    { <<f \o t>> : f \in PreviewFlags, t \in HandleStrings }
    \cup { <<f \o t, g>> : f \in PreviewFlags, t \in HandleStrings,
                           g \in HandleStrings }

InitPreview == InitWith(PreviewArgs, "start")

NextPreview ==
    \/ Main
    \/ RunPreviewSwap(MainCaller)
    \/ RunPreviewLaunch(MainCaller)
    \/ RunPreviewReturn(MainCaller)
    \/ \E speed \in Speeds, image \in StandaloneImages, new_hue \in HueSamples :
          preview_model_standalone(speed, image, new_hue)
    \/ \E speed \in Speeds, image \in EmbeddedImages, new_hue \in HueSamples :
          preview_model_embedded(speed, image, new_hue)
    \/ \E found, rect_ok, parent_ok, style_ok, move_ok \in BOOLEAN :
          EmbedThread(found, rect_ok, parent_ok, style_ok, move_ok)
    \/ CloseWindow

SpecPreview == InitPreview /\ [][NextPreview]_vars

-----------------------------------------------------------------------------
(* The configuration specification: main given /c, and the dialog from its  *)
(* construction to the end of the process.                                  *)

ConfigureArgs == { << <<"-", "C">> >> }

InitConfigure == InitFull(ConfigureArgs, "start", ConfigFiles, {{}})

NextConfigure ==
    \/ Main
    \/ MainReturn
    \/ config_model
    \/ \E ui \in UiInputs, open_ok \in BOOLEAN : config_update(ui, open_ok)
    \/ \E event \in RawEvents : raw_window_event(event)
    \/ \E id \in PickerIds, result \in PickerResults : PickerThread(id, result)
    \/ CloseWindow

SpecConfigure == InitConfigure /\ [][NextConfigure]_vars

-----------------------------------------------------------------------------
(* The store specification: load_config and save_config called again and   *)
(* again by a caller that holds a record (cfg.config), over files of every  *)
(* shape: missing, short, with unparseable lines.                           *)

MaxLines == 4

\* Lines a numeric field of a file can hold: numbers, a letter, nothing
FieldTexts == { <<"2">>, <<"0", ".", "5">>, <<"-", "1">>, <<"x">>, <<>> }

\* Lines the path field of a file can hold
PathTexts == { <<>>, <<"c">> }

\* The text of a sequence of lines, each ended by a line feed
RECURSIVE JoinLines(_)
JoinLines(ls) ==
    IF Len(ls) = 0 THEN <<>> ELSE Head(ls) \o <<LF>> \o JoinLines(Tail(ls))

\* The line sequences of k lines: numeric fields first, the path fourth, then
\* lines load_config does not read
LineSeqs(k) ==
    {ls \in [1..k -> FieldTexts \cup PathTexts] :
        \A i \in 1..k : IF i <= 3 THEN ls[i] \in FieldTexts
                         ELSE ls[i] \in PathTexts}

\* The files the store can hold before the program writes it
StoreFiles ==
    {None} \cup {Some(JoinLines(ls)) : ls \in UNION {LineSeqs(k) : k \in 0..MaxLines}}

\* Records a caller saves: numbers within the ranges of the sliders (speed
\* 10.0 .. 200.0, size factor 0.05 .. 0.5, icon 0 .. 2) and paths, two of
\* them with a line terminator inside or at the end
StoreRecords ==
    {[speed |-> sp, image_index |-> ix, size_factor |-> sf,
      custom_image_path |-> path] :
        sp \in {1000, 12050}, ix \in {0, 2}, sf \in {5, 16},
        path \in { <<>>, <<"c">>, <<"c", LF, "d">>, <<"c", CR>> }}

\* A caller calls load_config() and holds the record it returns
StoreLoad ==
    /\ main_pc = "store"
    /\ cfg' = [cfg EXCEPT !.config = load_config(config_ini)]
    /\ last_step' = Step("load_config", 0, None, <<>>, <<>>)
    /\ UNCHANGED <<pickers, config_ini, saves>>
    /\ UNCHANGED io_vars
    /\ UNCHANGED cc
    /\ UNCHANGED <<args, main_pc, mode, exited, exit_code,
                   PREVIEW_RUNNING, PREVIEW_PARENT_HWND, rp, app_fn, app_state,
                   app_time, window, n_windows, embed, model, LAST_HUE>>

\* A caller calls save_config(&config) with a record it holds; the file can
\* be opened for writing or not
StoreSave(config, open_ok) ==
    /\ main_pc = "store"
    /\ cfg' = [cfg EXCEPT !.config = config]
    /\ config_ini' = save_config(config, config_ini, open_ok)
    /\ last_step' = Step(IF open_ok THEN "save_config" ELSE "save_config_failed",
                         0, None, <<>>, <<>>)
    /\ UNCHANGED <<pickers, saves>>
    /\ UNCHANGED io_vars
    /\ UNCHANGED cc
    /\ UNCHANGED <<args, main_pc, mode, exited, exit_code,
                   PREVIEW_RUNNING, PREVIEW_PARENT_HWND, rp, app_fn, app_state,
                   app_time, window, n_windows, embed, model, LAST_HUE>>

InitStore == InitFull({<<>>}, "store", StoreFiles, {{}})

NextStore ==
    \/ StoreLoad
    \/ \E config \in StoreRecords, open_ok \in BOOLEAN : StoreSave(config, open_ok)

SpecStore == InitStore /\ [][NextStore]_vars

-----------------------------------------------------------------------------
(* The icon specification: interactive and preview sessions built, run and  *)
(* closed over config files that name each icon and over disks with and     *)
(* without the custom image file.                                           *)

IconArgs ==
    { <<>>,
      << <<"/", "s">> >>,
      << <<"/", "p">> >>,
      << <<"/", "p">>, <<"7">> >> }

\* A config file naming the icon ix and the custom path
IconFile(ix, path) ==
    Some(config_text([DefaultConfig EXCEPT !.image_index = ix,
                                           !.custom_image_path = path]))

IconFiles ==
    { None, IconFile(1, <<>>), IconFile(2, <<>>), IconFile(2, <<"c">>),
      IconFile(3, <<"c">>) }

IconDisks == { {}, { <<"c">> } }

InitIcon == InitFull(IconArgs, "start", IconFiles, IconDisks)

NextIcon ==
    \/ Main
    \/ MainReturn
    \/ RunPreviewSwap(MainCaller)
    \/ RunPreviewLaunch(MainCaller)
    \/ RunPreviewReturn(MainCaller)
    \/ \E speed \in Speeds, image \in ScreenImages, new_hue \in HueSamples :
          AppModel(speed, image, new_hue)
    \/ \E speed \in Speeds, image \in StandaloneImages, new_hue \in HueSamples :
          preview_model_standalone(speed, image, new_hue)
    \/ \E speed \in Speeds, image \in EmbeddedImages, new_hue \in HueSamples :
          preview_model_embedded(speed, image, new_hue)
    \/ \E found, rect_ok, parent_ok, style_ok, move_ok \in BOOLEAN :
          EmbedThread(found, rect_ok, parent_ok, style_ok, move_ok)
    \/ \E dt \in {1}, new_hue \in HueSamples : Update(dt, new_hue)
    \/ CloseWindow

SpecIcon == InitIcon /\ [][NextIcon]_vars

-----------------------------------------------------------------------------
(* The claims. *)

\* The session runs the interactive Model (no flag, /s or an unknown flag)
InteractiveMode == mode \in {"Interactive", "ScreensaverExec"}

\* The rectangle r lies entirely within the viewport win, on both axes
InViewport(r, win) ==
    /\ left(r) >= left(win)
    /\ right(r) <= right(win)
    /\ bottom(r) >= bottom(win)
    /\ top(r) <= top(win)

\* C1: after every tick (update has returned), whatever the delta time and the
\* ticks before it, the bounding box lies entirely within the viewport.
C1_BoxInViewportAfterTick ==
    last_step.kind = "update" => InViewport(model.dvd_rect, window_rect(window))

\* A tick of the longest delta time has brought the box, turned round by
\* earlier collisions, onto the left and the bottom edge.
C1_Witness ==
    /\ last_step.kind = "update"
    /\ last_step.dt = MaxDt
    /\ last_step.bounces = <<"left", "bottom">>
    /\ left(model.dvd_rect) = left(window_rect(window))
    /\ bottom(model.dvd_rect) = bottom(window_rect(window))

\* min(|a-b|, 360-|a-b|)
CircularDistance(a, b) ==
    IF Abs(a - b) <= 360 - Abs(a - b) THEN Abs(a - b) ELSE 360 - Abs(a - b)

\* C2: every recolour commits a hue at circular distance at least 60 from the
\* hue committed before it (0 before the first); a draw equal to the committed
\* hue is never accepted.
C2_MinHueDistance ==
    /\ [][\A i \in 1..Len(last_step'.commits) :
             /\ LAST_HUE' = last_step'.commits[i]
             /\ CircularDistance(LAST_HUE, last_step'.commits[i]) >= 60]_vars
    /\ [](~Accepts(LAST_HUE, LAST_HUE))

\* A recolour has committed a hue exactly 60 away from the initial hue 0.
C2_Witness ==
    /\ last_step.kind = "change_color"
    /\ last_step.commits = <<300>>
    /\ LAST_HUE = 300

\* The first two characters of the first argument, if it has them
FlagPrefix(a) ==
    IF Len(a) > 0 /\ Len(a[1]) >= 2 THEN SubSeq(a[1], 1, 2) ELSE <<>>

\* The dispatch table of the specification
DispatchTable(a) ==
    LET f == FlagPrefix(a)
        Flag(letters) == \E sign \in {"/", "-"}, l \in letters : f = <<sign, l>>
    IN  CASE Flag({"c", "C"}) -> "Configure"
          [] Flag({"p", "P"}) -> "Preview"
          [] Flag({"s", "S"}) -> "ScreensaverExec"
          [] Flag({"a", "A"}) -> "PasswordStub"
          [] OTHER -> "Interactive"

PastGuard == {c \in Callers : rp[c].pc \in {"passed", "app"}}

\* C4: at most one caller of run_preview_mode is past the guard at any time; a
\* caller that finds the guard taken exits the process with code 0 at once,
\* and every window is the window of a caller that passed the guard.
C4_SingleInstanceGuard ==
    /\ Cardinality(PastGuard) <= 1
    /\ \A c \in Callers : rp[c].pc = "exit0" => exited /\ exit_code = Some(0)
    /\ n_windows <= Cardinality({c \in Callers : rp[c].pc \in {"app", "done"}})
    /\ PastGuard # {} => PREVIEW_RUNNING

\* A second attempt has exited while the first one's preview was running.
C4_Witness ==
    \E c, d \in Callers :
        /\ c # d
        /\ rp[c].pc = "app"
        /\ app_state = "running"
        /\ rp[d].pc = "exit0"
        /\ n_windows = 1

\* C5: in interactive mode, once more than 0.1 s have elapsed: the first
\* pointer position is recorded as the baseline and no step changes a recorded
\* baseline; a pointer event ends the session exactly when its position
\* differs from the baseline; a button press, key press or scroll ends it.
C5_ListeningEndsOnInput ==
    [][LET kind == last_step'.kind
           pos == last_step'.pos
       IN  /\ model.m_pos # None /\ app_state = "running" =>
                 model'.m_pos = model.m_pos
           /\ ( /\ app_state = "running"
                /\ InteractiveMode
                /\ app_time > JitterTime
                /\ kind \in EventKinds ) =>
                 /\ kind = "MouseMoved" /\ model.m_pos = None =>
                       model'.m_pos = pos /\ app_state' = "running"
                 /\ kind = "MouseMoved" /\ model.m_pos # None =>
                       (app_state' = "closed" <=> pos # model.m_pos)
                 /\ kind = "MouseMoved" /\ pos = model.m_pos =>
                       app_state' = "running"
                 /\ kind \in {"MousePressed", "KeyPressed", "MouseWheel"} =>
                       app_state' = "closed"]_vars

\* A pointer event away from the recorded baseline has ended the session.
C5_Witness ==
    /\ InteractiveMode
    /\ app_state = "closed"
    /\ last_step.kind = "MouseMoved"
    /\ model.m_pos # None
    /\ model.m_pos # last_step.pos

\* C6: the session starts with no time elapsed, and while the elapsed time has
\* not exceeded 0.1 s no input event ends the session or records a baseline.
C6_GuardedIgnoresInput ==
    [][/\ last_step'.kind = "model" => app_time' = 0
       /\ ( /\ app_state = "running"
            /\ app_time <= JitterTime
            /\ last_step'.kind \in EventKinds ) =>
             /\ app_state' = "running"
             /\ model.m_pos = None
             /\ model' = model]_vars

\* A button press has arrived in the start-up window of an interactive
\* session, which goes on.
C6_Witness ==
    /\ InteractiveMode
    /\ last_step.kind = "MousePressed"
    /\ app_time > 0
    /\ app_time <= JitterTime
    /\ app_state = "running"

\* C7: in Preview mode no input event changes the Model, the committed hue,
\* the clock or the window, or ends the session, and no baseline is recorded.
C7_PreviewIgnoresInput ==
    /\ [][mode = "Preview" /\ last_step'.kind \in EventKinds =>
             /\ model' = model
             /\ app_state' = app_state
             /\ exited' = exited
             /\ LAST_HUE' = LAST_HUE
             /\ app_time' = app_time
             /\ window' = window]_vars
    /\ [](mode = "Preview" => model.m_pos = None)

\* An embedded preview has been given a key press long after the start-up
\* window, and runs on.
C7_Witness ==
    /\ mode = "Preview"
    /\ model.preview_parent # None
    /\ last_step.kind = "KeyPressed"
    /\ app_time > JitterTime
    /\ app_state = "running"

\* C8: no step changes the magnitude of a velocity component of the Model.
C8_SpeedMagnitudeKept ==
    [][model # NoModel =>
          /\ Abs(model'.dvd_vel.x) = Abs(model.dvd_vel.x)
          /\ Abs(model'.dvd_vel.y) = Abs(model.dvd_vel.y)]_vars

\* A tick has turned the horizontal velocity to the left on the right edge.
C8_Witness ==
    /\ last_step.kind = "update"
    /\ "right" \in {last_step.bounces[i] : i \in 1..Len(last_step.bounces)}
    /\ model.dvd_vel.x < 0

\* The tentative translation of a tick of dt takes the box across the right
\* and across the top edge of the viewport
CrossesRightAndTop(m, win, dt) ==
    /\ m.dvd_rect.x + m.dvd_vel.x * dt + m.dvd_rect.w \div 2 > right(win)
    /\ m.dvd_rect.y + m.dvd_vel.y * dt + m.dvd_rect.h \div 2 > top(win)

\* C9: a tick whose tentative translation crosses the right and the top edge
\* runs exactly two edge branches, right and top, and leaves the box with its
\* right edge on the viewport's right edge and its top edge on its top edge.
C9_CornerHit ==
    [][( /\ last_step'.kind = "update"
         /\ CrossesRightAndTop(model, window_rect(window), last_step'.dt) ) =>
          /\ last_step'.bounces = <<"right", "top">>
          /\ right(model'.dvd_rect) = right(window_rect(window))
          /\ top(model'.dvd_rect) = top(window_rect(window))]_vars

\* A tick of positive delta time has hit the corner.
C9_Witness ==
    /\ last_step.kind = "update"
    /\ last_step.dt > 0
    /\ last_step.bounces = <<"right", "top">>
    /\ right(model.dvd_rect) = right(window_rect(window))
    /\ top(model.dvd_rect) = top(window_rect(window))

\* C10: the committed hue is an integer in [0, 360) in every state.
C10_HueInRange == LAST_HUE \in Int /\ 0 <= LAST_HUE /\ LAST_HUE < 360

\* A recolour has committed the largest hue.
C10_Witness ==
    /\ last_step.kind = "change_color"
    /\ LAST_HUE = 359

\* s is a decimal number: an optional minus sign, then one digit or more
WellFormedHandle(s) ==
    \/ Len(s) >= 1 /\ \A i \in 1..Len(s) : s[i] = "7"
    \/ Len(s) >= 2 /\ s[1] = "-" /\ \A i \in 2..Len(s) : s[i] = "7"

\* The number written with n sevens
RECURSIVE Sevens(_)
Sevens(n) == IF n = 0 THEN 0 ELSE 10 * Sevens(n - 1) + 7

\* The number a well-formed handle denotes
HandleValue(s) == IF s[1] = "-" THEN -Sevens(Len(s) - 1) ELSE Sevens(Len(s))

\* Where the handle is supplied: the next argument if there is one, else what
\* is appended after the two flag letters
SuppliedHandle(a) == IF Len(a) >= 2 THEN a[2] ELSE SubSeq(a[1], 3, Len(a[1]))

\* The window is a floating preview: top level, decorated, without a parent
FloatingPreview(wnd) ==
    /\ wnd.title = PreviewTitle
    /\ wnd.parent = None
    /\ wnd.style = "top_level"
    /\ wnd.w = 2 * PreviewHalfW
    /\ wnd.h = 2 * PreviewHalfH

\* C11: a first argument selecting Preview always gives Preview and never an
\* exit: run_preview_mode is given the number supplied as the next argument or
\* appended to the flag letters, and no handle when that is missing or
\* malformed, in which case the session is the standalone floating preview.
C11_PreviewHandle ==
    mode # NoMode =>
        /\ mode = "Preview"
        /\ exit_code = None
        /\ rp[MainCaller].pc # "exit0"
        /\ rp[MainCaller].hwnd =
              IF WellFormedHandle(SuppliedHandle(args))
              THEN Some(HandleValue(SuppliedHandle(args)))
              ELSE None
        /\ ( rp[MainCaller].hwnd = None /\ app_fn # "none" ) =>
              /\ app_fn = "preview_model_standalone"
              /\ PREVIEW_PARENT_HWND = None
              /\ embed.pc = "none"
              /\ window # NoWindow =>
                    FloatingPreview(window) /\ window.decorations
                                            /\ model.is_preview

\* A malformed second argument has given a standalone preview, which runs.
C11_Witness ==
    /\ args = << <<"/", "p">>, <<"7", "x">> >>
    /\ rp[MainCaller].hwnd = None
    /\ app_state = "running"
    /\ window.always_on_top

\* A handle appended to an upper-case flag has reached run_preview_mode.
C11_WitnessAppended ==
    /\ args = << <<"-", "P", "7", "7">> >>
    /\ rp[MainCaller].hwnd = Some(77)
    /\ PREVIEW_PARENT_HWND = Some(77)
    /\ app_state = "running"

\* C12: in an embedded preview, when the lookup or any later step of the
\* embedding (client rectangle, reparent, style, move) has failed, the window
\* is the floating preview, with its parent, style and size, and the process
\* has not been ended.
C12_EmbeddingFailureStaysFloating ==
    ( /\ mode = "Preview"
      /\ embed.pc = "done"
      /\ embed.failed # {}
      /\ window # NoWindow ) =>
        /\ FloatingPreview(window)
        /\ exit_code = None

\* The part of C12 that holds: a failed lookup or client-rectangle query
\* leaves the floating preview as it was, and no failure ends the process.
C12_LookupFailureStaysFloating ==
    ( /\ mode = "Preview"
      /\ embed.pc = "done"
      /\ window # NoWindow ) =>
        /\ embed.failed \cap {"FindWindowW", "GetClientRect"} # {} =>
              FloatingPreview(window)
        /\ embed.failed = {} =>
              /\ window.parent = embed.parent
              /\ window.style = "child_visible"
              /\ window.w = 2 * HostHalfW
        /\ exit_code = None

\* SetParent has failed and the window runs on as a child-styled, host-sized
\* window without a parent.
C12_PartlyEmbedded ==
    /\ mode = "Preview"
    /\ embed.failed = {"SetParent"}
    /\ app_state = "running"
    /\ window.parent = None
    /\ window.style = "child_visible"
    /\ window.w = 2 * HostHalfW

\* The kinds of step that are one tick of the dialog (one config_update)
DialogTicks ==
    {"config_exit", "NoInput", "Speed", "Icon", "EditPath", "Browse", "Quick",
     "Size", "Save", "Cancel", "Reset", "CloseDialog"}

\* C13: in the configuration dialog, Save calls the config store once with
\* the record of the dialog and asks the session to end; Cancel and a close
\* of the window ask it to end and write nothing; Reset neither writes nor
\* ends; the file is written by Save alone, once at most; and once the end
\* has been asked for, the next tick exits the process with code 0.
C13_SaveCancelReset ==
    /\ [][LET kind == last_step'.kind
          IN  ( mode = "Configure" /\ app_state = "running" ) =>
                /\ ( kind = "Save" /\ ~cfg.should_exit ) =>
                      /\ saves' = saves + 1
                      /\ config_ini' \in {config_ini, Some(config_text(cfg'.config))}
                      /\ cfg'.should_exit
                      /\ ~exited'
                /\ ( kind \in {"Cancel", "CloseDialog", "CloseRequested"}
                      /\ ~cfg.should_exit ) =>
                      /\ cfg'.should_exit
                      /\ config_ini' = config_ini
                      /\ saves' = saves
                /\ ( kind = "Reset" /\ ~cfg.should_exit ) =>
                      /\ ~cfg'.should_exit
                      /\ config_ini' = config_ini
                      /\ saves' = saves
                      /\ ~exited'
                      /\ app_state' = "running"
                /\ ( kind \in DialogTicks /\ cfg.should_exit ) =>
                      /\ exited'
                      /\ exit_code' = Some(0)
                      /\ config_ini' = config_ini
                      /\ saves' = saves
                /\ cfg.should_exit => cfg'.should_exit
                /\ config_ini' # config_ini => kind = "Save"
                /\ ( kind \in DialogTicks /\ ~cfg.should_exit ) => ~exited']_vars
    /\ [](saves <= 1)
    /\ [](saves = 1 => cfg.should_exit)

\* Save has written the record of the dialog, slider value included, and the
\* next tick has ended the process.
C13_Witness ==
    /\ mode = "Configure"
    /\ saves = 1
    /\ exited
    /\ exit_code = Some(0)
    /\ cfg.config.speed = 20000
    /\ config_ini = Some(config_text(cfg.config))

\* Cancel has ended a session that changed the record, and the file is as it
\* was: missing.
C13_WitnessCancel ==
    /\ mode = "Configure"
    /\ saves = 0
    /\ exited
    /\ cfg.config.speed = 20000
    /\ config_ini = None

\* The lines of the config file, none when there is no file
FileLines == IF config_ini = None THEN <<>> ELSE lines(config_ini[1])

\* The k-th field of the file is missing, or is not a number of its type
FieldUnusable(k) ==
    \/ Len(FileLines) < k
    \/ k \in {1, 3} /\ ParseF32(FileLines[k]) = None
    \/ k = 2 /\ ParseUsize(FileLines[k]) = None

OneLine(path) ==
    /\ \A i \in 1..Len(path) : path[i] # LF
    /\ Len(path) > 0 => path[Len(path)] # CR

IconLoadFails ==
    LET config == load_config(config_ini)
    IN  /\ config.image_index = 2
        /\ \/ config.custom_image_path = <<>>
           \/ config.custom_image_path \notin images_on_disk

\* C16: in the interactive and the preview modes, when loading the configured
\* icon fails, the session is built with the bundled default image, a
\* diagnostic has been written, and the session runs; the process is not
\* ended.
C16_IconFallback ==
    ( /\ mode \in {"Interactive", "ScreensaverExec", "Preview"}
      /\ model # NoModel
      /\ IconLoadFails ) =>
        /\ model.original_image.source = "dvd_logo"
        /\ model.image.source = "dvd_logo"
        /\ stderr # <<>>
        /\ exit_code = None
        /\ last_step.kind = "model" => app_state = "running"

\* The part of C16 that holds: the fallback image in every mode, the
\* diagnostic in the interactive modes, and a session that runs.
C16_IconFallbackQuietPreview ==
    ( /\ mode \in {"Interactive", "ScreensaverExec", "Preview"}
      /\ model # NoModel
      /\ IconLoadFails ) =>
        /\ model.original_image.source = "dvd_logo"
        /\ model.image.source = "dvd_logo"
        /\ InteractiveMode => stderr = <<IconLoadingFailed>>
        /\ exit_code = None
        /\ last_step.kind = "model" => app_state = "running"

\* A preview whose custom icon is missing runs with the bundled logo and has
\* written no diagnostic.
C16_SilentPreview ==
    /\ mode = "Preview"
    /\ IconLoadFails
    /\ last_step.kind = "update"
    /\ model.image.source = "dvd_logo"
    /\ stderr = <<>>

\* The tick taken in this step receives the report of the picker task id, in
\* a frame whose input touches neither a path nor the picker
ReceivesReport(id) ==
    /\ pickers[id].pc = "sent"
    /\ pickers'[id].pc = "received"
    /\ last_step'.kind \notin {"EditPath", "Quick", "Reset", "Browse"}

\* C17 as stated: the tick that receives the report of the file-picker task
\* clears the in-flight state; on a report of no selection it leaves the edit
\* field and the path of the config record unchanged; on a report of a path
\* it sets both to that path.
C17_ReportLeavesPaths ==
    [][\A id \in PickerIds :
          ReceivesReport(id) =>
            /\ cfg'.file_dialog_receiver = None
            /\ ~cfg'.is_file_dialog_open
            /\ pickers[id].result = None =>
                  /\ cfg'.custom_image_path = cfg.custom_image_path
                  /\ cfg'.config.custom_image_path = cfg.config.custom_image_path
            /\ pickers[id].result # None =>
                  /\ cfg'.custom_image_path = pickers[id].result[1]
                  /\ cfg'.config.custom_image_path = pickers[id].result[1]]_vars

\* What holds of C17: the tick that receives the report of the file-picker task
\* clears the in-flight state; on a report of no selection the edit field is
\* unchanged, and the path of the config record is unchanged when it equals
\* the edit field or the custom icon is not selected, and is the edit field's
\* otherwise (the copy every frame makes, which differs after a
\* quick-select); on a report of a path both are that path.
C17_PickerResult ==
    [][\A id \in PickerIds :
          ReceivesReport(id) =>
            /\ cfg.file_dialog_receiver = Some(id)
            /\ cfg'.file_dialog_receiver = None
            /\ ~cfg'.is_file_dialog_open
            /\ pickers[id].result = None =>
                  /\ cfg'.custom_image_path = cfg.custom_image_path
                  /\ cfg'.config.custom_image_path \in
                        {cfg.config.custom_image_path, cfg.custom_image_path}
                  /\ ( \/ cfg.custom_image_path = cfg.config.custom_image_path
                       \/ cfg'.config.image_index # 2 ) =>
                        cfg'.config.custom_image_path = cfg.config.custom_image_path
            /\ pickers[id].result # None =>
                  /\ cfg'.custom_image_path = pickers[id].result[1]
                  /\ cfg'.config.custom_image_path = pickers[id].result[1]]_vars

\* A cancelled picker has been received: the typed path is still in the edit
\* field and in the record, and nothing is in flight.
C17_Witness ==
    /\ \E id \in PickerIds : pickers[id] = [pc |-> "received", result |-> None]
    /\ last_step.kind = "NoInput"
    /\ cfg.custom_image_path = <<"a">>
    /\ cfg.config.custom_image_path = <<"a">>
    /\ cfg.file_dialog_receiver = None
    /\ ~cfg.is_file_dialog_open

\* A picked path has been received over a typed one.
C17_WitnessPicked ==
    /\ pickers[1] = [pc |-> "received", result |-> Some(<<"b">>)]
    /\ pickers[2].pc = "none"
    /\ last_step.kind = "NoInput"
    /\ cfg.custom_image_path = <<"b">>
    /\ cfg.config.custom_image_path = <<"b">>
    /\ ~cfg.is_file_dialog_open

EdgesBeyond(dt) ==
    LET t == Translate(model, dt).rect
        win == window_rect(window)
    IN  {e \in {"left", "right", "bottom", "top"} :
            \/ e = "left" /\ left(t) < left(win)
            \/ e = "right" /\ right(t) > right(win)
            \/ e = "bottom" /\ bottom(t) < bottom(win)
            \/ e = "top" /\ top(t) > top(win)}

EdgesReached(dt) ==
    LET t == Translate(model, dt).rect
        win == window_rect(window)
    IN  {e \in {"left", "right", "bottom", "top"} :
            \/ e = "left" /\ left(t) <= left(win)
            \/ e = "right" /\ right(t) >= right(win)
            \/ e = "bottom" /\ bottom(t) <= bottom(win)
            \/ e = "top" /\ top(t) >= top(win)}

\* C19: a tick emits a bounce event for an edge only if the translated box
\* crosses that edge, and a tick in which it crosses none (one of zero length
\* on a box clamped onto an edge, say) leaves the velocity, the committed hue
\* and the displayed image unchanged.
C19_BounceOnlyOnCrossing ==
    [][last_step'.kind = "update" =>
         LET crossed == EdgesBeyond(last_step'.dt)
         IN  /\ \A i \in 1..Len(last_step'.bounces) :
                   last_step'.bounces[i] \in crossed
             /\ crossed = {} =>
                   /\ model'.dvd_vel = model.dvd_vel
                   /\ LAST_HUE' = LAST_HUE
                   /\ model'.image = model.image]_vars

\* What holds of C19: a tick emits a bounce event exactly if the translated
\* box has reached an edge, the comparison of the code being inclusive, and
\* changes nothing but the position otherwise.
C19_BounceOnlyOnReaching ==
    [][last_step'.kind = "update" =>
         LET reached == EdgesReached(last_step'.dt)
         IN  /\ last_step'.bounces # <<>> <=> reached # {}
             /\ reached = {} =>
                   /\ model'.dvd_vel = model.dvd_vel
                   /\ LAST_HUE' = LAST_HUE
                   /\ model'.image = model.image]_vars

\* A tick of zero length has emitted a bounce event and committed a hue.
C19_RebounceAtRest ==
    /\ last_step.kind = "update"
    /\ last_step.dt = 0
    /\ last_step.bounces # <<>>
    /\ last_step.commits # <<>>

\* The edges whose collision the last tick resolved
Resolved == {last_step.bounces[i] : i \in 1..Len(last_step.bounces)}

C20_WitnessBothEdges ==
    /\ last_step.kind = "update"
    /\ last_step.bounces = <<"left", "right">>
    /\ left(model.dvd_rect) = left(window_rect(window))
    /\ model.dvd_vel.x < 0

\* The picker tasks in flight: spawned, and the result not yet taken by the
\* poll of the loop
InFlight(ps) == {id \in PickerIds : ps[id].pc \in {"picking", "sent"}}

\* C21: at most one picker task is in flight, and the flag is set exactly
\* while one is, its receiver being the one the loop polls; a task is spawned
\* only by a tick that finds the flag clear after its poll, and that tick sets
\* the flag; the flag is cleared only by the tick whose poll takes the result
\* of the task in flight.
C21_OnePickerInFlight ==
    /\ [](cfg # NoConfigModel =>
            /\ Cardinality(InFlight(pickers)) <= 1
            /\ cfg.is_file_dialog_open <=> InFlight(pickers) # {}
            /\ cfg.is_file_dialog_open <=> cfg.file_dialog_receiver # None
            /\ cfg.is_file_dialog_open =>
                  InFlight(pickers) = {cfg.file_dialog_receiver[1]})
    /\ [][cfg # NoConfigModel =>
            /\ \A id \in PickerIds :
                  (pickers[id].pc = "none" /\ pickers'[id].pc # "none") =>
                      /\ ~PollReceiver(cfg, pickers).is_file_dialog_open
                      /\ InFlight(pickers') = {id}
                      /\ cfg'.is_file_dialog_open
            /\ (cfg.is_file_dialog_open /\ InFlight(pickers') = {}) =>
                  /\ pickers[cfg.file_dialog_receiver[1]].pc = "sent"
                  /\ pickers'[cfg.file_dialog_receiver[1]].pc = "received"]_vars

\* The result of the first task has been taken and a second task is in
\* flight.
C21_Witness ==
    /\ cfg # NoConfigModel
    /\ pickers[1].pc = "received"
    /\ pickers[2].pc = "picking"
    /\ cfg.is_file_dialog_open
    /\ cfg.file_dialog_receiver = Some(2)

\* A step of a running session, from its construction to its end
InSession ==
    /\ app_state = "running"
    /\ app_state' = "running"
    /\ model # NoModel

\* C22 as stated: the viewport update checks collisions against is the same
\* rectangle in every state of a session, and nothing but the loop writes the
\* simulation state, the embedding thread included.
C22_FixedViewport ==
    [][InSession =>
         /\ window_rect(window') = window_rect(window)
         /\ last_step'.kind = "embed" =>
               model' = model /\ LAST_HUE' = LAST_HUE]_vars

\* C22, amended: update reads the window's rectangle in every tick. It stays
\* the same through the screensaver and the standalone preview; in the
\* embedded preview the embedding thread changes it once, to the host's
\* client rectangle, when its MoveWindow succeeds. The thread writes no
\* simulation state: box, velocity, image, pointer baseline and hue change in
\* steps of the loop only.
C22_ViewportMovedByEmbedding ==
    [][InSession =>
         /\ window_rect(window') # window_rect(window) =>
               /\ last_step'.kind = "embed"
               /\ app_fn = "preview_model_embedded"
               /\ embed.pc = "sleeping" /\ embed'.pc = "done"
               /\ "MoveWindow" \notin embed'.failed
               /\ window_rect(window') =
                     from_x_y_w_h(0, 0, 2 * HostHalfW, 2 * HostHalfH)
         /\ last_step'.kind = "embed" =>
               model' = model /\ LAST_HUE' = LAST_HUE
         /\ (model' # model \/ LAST_HUE' # LAST_HUE) =>
               last_step'.kind \in {"update"} \cup {e.kind : e \in Events}]_vars

\* After at least one tick of the embedded preview in the 200 x 150 window
\* the thread has given the window the host's rectangle.
C22_Witness ==
    /\ app_state = "running"
    /\ app_fn = "preview_model_embedded"
    /\ last_step.kind = "embed"
    /\ app_time > 0
    /\ embed.failed = {}
    /\ window_rect(window) = from_x_y_w_h(0, 0, 2 * HostHalfW, 2 * HostHalfH)
    /\ window_rect(window) #
          from_x_y_w_h(0, 0, 2 * PreviewHalfW, 2 * PreviewHalfH)

\* C23: for every committed hue of [0, 360) gen_range has a candidate at
\* circular distance 60 or more; a call that has taken the lock of LAST_HUE
\* leaves its loop in the end, commits the accepted candidate and drops the
\* lock; the lock is held from the lock to the drop and not outside.
C23_RedrawTerminates ==
    /\ [](\A h \in gen_range :
             \E c \in gen_range : CircularDistance(c, h) >= 60 /\ Accepts(c, h))
    /\ [](cc.last_hue_guard <=> cc.pc \in {"loop", "break", "commit"})
    /\ (cc.pc = "loop") ~>
          (/\ cc.pc = "drop"
           /\ ~cc.last_hue_guard
           /\ cc.new_hue = Some(LAST_HUE)
           /\ last_step.kind = "drop")

\* A call has dropped the lock after a draw that was rejected and a draw
\* that was accepted and committed.
C23_Witness ==
    /\ cc.pc = "drop"
    /\ cc.draws >= 2
    /\ ~cc.last_hue_guard
    /\ cc.new_hue = Some(LAST_HUE)

\* C24: in the tick in which Save is pressed the path of the record given to
\* the config store is the content of the edit field, and so is the path of
\* the file that was written.
C24_SavedPathIsField ==
    [][last_step'.kind = "Save" =>
         /\ cfg'.config.custom_image_path = cfg'.custom_image_path
         /\ config_ini' # config_ini =>
               load_config(config_ini').custom_image_path =
                   cfg'.custom_image_path]_vars

\* What holds of C24: Save writes the path of the record, which is the edit
\* field's when the custom icon is selected in that tick or when record and
\* field agreed before it.
C24_SavedPathIsFieldWhenShown ==
    [][last_step'.kind = "Save" =>
         /\ config_ini' \in {config_ini, Some(config_text(cfg'.config))}
         /\ cfg'.custom_image_path =
               PollReceiver(cfg, pickers).custom_image_path
         /\ ( \/ cfg'.config.image_index = 2
              \/ PollReceiver(cfg, pickers).config.custom_image_path =
                    PollReceiver(cfg, pickers).custom_image_path ) =>
               cfg'.config.custom_image_path = cfg'.custom_image_path]_vars

\* Save has written a file whose path is not what the edit field holds.
C24_StaleSave ==
    /\ last_step.kind = "Save"
    /\ config_ini = Some(config_text(cfg.config))
    /\ cfg.custom_image_path # <<>>
    /\ load_config(config_ini).custom_image_path # cfg.custom_image_path

=============================================================================
